---- MODULE Spec2Model ----
(***************************************************************************)
(* Model of the fleet record keeper's data layer (src/data_manager.py,     *)
(* class DataManager) and of the forms that call it.                       *)
(*                                                                         *)
(* A JSON document is modelled by the value json.load returns for it: a    *)
(* list is a sequence, a dict is a function from field names to values.    *)
(* A text is a sequence of one-character strings, so that str.upper and    *)
(* the ISO timestamp format are computed and not assumed.                  *)
(***************************************************************************)
EXTENDS Integers, Sequences, FiniteSets, TLC

VARIABLES
    files,       \* data type -> the value its JSON file holds
    unreadable,  \* the data types whose file is absent or not valid JSON
    now,         \* the wall clock read by datetime.now()
    last,        \* the call that ran last: its name, its key argument and what it returned
    pc,          \* concurrent caller -> where it is in its add call
    frame        \* concurrent caller -> the locals of its add call

vars == <<files, unreadable, now, last, pc, frame>>

(***************************************************************************)
(* Bounds of the model.                                                    *)
(***************************************************************************)
MaxVehicles == 2
MaxClock == 2
MaxRecords == 1
MaxStock == 2
MaxDocs == 1
MaxSeq == 2
MaxLoads == 10
MaxFaults == 1

(***************************************************************************)
(* Input values.                                                           *)
(***************************************************************************)
data_files == {"vehicles", "maintenance", "inventory", "permits", "token_tax", "loads"}

Plates == { <<"A", "1">>, <<"B", "1">> }
Statuses == {"Active", "Maintenance"}

\* vehicle_data as add_vehicle receives it: a new vehicle comes in as Active
VehicleData == [plate_number : Plates, status : {"Active"}]

\* updated_data as update_vehicle receives it: any subset of the fields
VehicleUpdates ==
    { <<>> } \cup [status : Statuses] \cup [plate_number : Plates]
             \cup [plate_number : Plates, status : Statuses]

\* maintenance_data as add_maintenance_record receives it
MaintenanceData ==
    [plate_number : { <<"A", "1">> }, oil_changed : BOOLEAN,
     air_filter_changed : BOOLEAN, tires_changed : {0, 2}]

\* permit_data, tax_data and load_data as the add methods receive them
PermitData == [plate_number : { <<"A", "1">> }, permit_number : { <<"P", "7">> }]
TaxData == [plate_number : { <<"A", "1">> }, tax_amount : {100}]
LoadData == [plate_number : Plates, status : {"Loading"}]

\* what is typed into the add-vehicle and edit-vehicle forms
RawPlates == { <<>>, <<"a", "1">>, <<"A", "1">>, <<"b", "1">> }
DriverNames == { <<>>, <<"d">>, <<"e">> }

\* the sessions that call the data layer at the same time
Callers == {"c1", "c2"}

\* the arguments of update_inventory
Items == {"oil", "air_filter", "tires"}
Quantities == {-1, 1, 9}
Operations == {"add", "subtract", "set"}

\* the item keys update_inventory is called with: the stocked items and one that
\* the inventory does not hold
ItemKeys == Items \cup {"coolant"}

(***************************************************************************)
(* dict and text helpers.                                                  *)
(***************************************************************************)
\* d[k] = x
SetItem(d, k, x) == [f \in (DOMAIN d) \cup {k} |-> IF f = k THEN x ELSE d[f]]

\* d.update(u)
DictUpdate(d, u) ==
    [f \in (DOMAIN d) \cup (DOMAIN u) |-> IF f \in DOMAIN u THEN u[f] ELSE d[f]]

\* str.upper(), on the letters of the model's texts
UpperChar(c) ==
    CASE c = "a" -> "A"
      [] c = "b" -> "B"
      [] c = "d" -> "D"
      [] c = "e" -> "E"
      [] OTHER -> c

Upper(text) == [i \in DOMAIN text |-> UpperChar(text[i])]

\* the decimal digits of n, most significant first, zero-padded to width w
\* (format spec 0wd: a longer number is not cut)
RECURSIVE Digits(_)
Digits(n) == IF n < 10 THEN << n >> ELSE Append(Digits(n \div 10), n % 10)

ZeroPad(n, w) ==
    LET d == Digits(n) IN
    IF Len(d) >= w THEN d ELSE [i \in 1..(w - Len(d)) |-> 0] \o d

\* int(): the number a text of decimal digits writes
RECURSIVE DecimalValue(_)
DecimalValue(digits) ==
    IF digits = <<>> THEN 0
    ELSE 10 * DecimalValue(SubSeq(digits, 1, Len(digits) - 1)) + digits[Len(digits)]

\* The clock counts instants; TicksPerDay of them make a calendar day, and
\* instant t falls on day t \div TicksPerDay at time of day t % TicksPerDay.
TicksPerDay == 2

\* the digits of the date part of an ISO text (YYYY of YYYY-MM-DD)
DateWidth == 4

\* datetime.date()
DateOf(t) == t \div TicksPerDay

\* date.isoformat(): the day in zero-padded digits, most significant first
DateIsoFormat(day) == ZeroPad(day, DateWidth)

\* datetime.isoformat(): the date, "T", the time of day
IsoFormat(t) == DateIsoFormat(DateOf(t)) \o << "T", t % TicksPerDay >>

\* datetime.fromisoformat(text): the instant the text writes; a text of a date
\* alone is that day's first instant
FromIsoFormat(text) ==
    DecimalValue(SubSeq(text, 1, DateWidth)) * TicksPerDay
        + (IF Len(text) > DateWidth THEN text[DateWidth + 2] ELSE 0)

\* (a - b).days of two instants: the whole days of the difference, rounded down
DaysBetween(a, b) == (a - b) \div TicksPerDay

default_data(data_type) ==
    IF data_type = "inventory"
    THEN [oil |-> 0, air_filter |-> 0, tires |-> 0]
    ELSE <<>>

\* a load_data whose except branch returns [] for every data type
load_data_list_default(data_type) ==
    IF data_type \in unreadable THEN <<>> ELSE files[data_type]

load_data(data_type) ==
    IF data_type \in unreadable THEN default_data(data_type) ELSE files[data_type]

\* a call of save_data(data_type, data)
Write(data_type, data) == [data_type |-> data_type, data |-> data]

\* what a method gives back: its (success, message) and the save_data calls it
\* made, in order
Result(ok, msg, writes) == [ok |-> ok, msg |-> msg, writes |-> writes]

\* a save that appends the caller's last record to a list that has grown since
\* the caller loaded it, instead of overwriting the list
RECURSIVE SavedMerging(_, _)
SavedMerging(f, writes) ==
    IF writes = <<>> THEN f
    ELSE LET w == Head(writes)
             merged ==
                 IF w.data_type # "inventory" /\ w.data # <<>>
                    /\ Len(f[w.data_type]) >= Len(w.data)
                 THEN Append(f[w.data_type], w.data[Len(w.data)])
                 ELSE w.data
         IN SavedMerging([f EXCEPT ![w.data_type] = merged], Tail(writes))

\* the files after the save_data calls of writes, applied in order
RECURSIVE Saved(_, _)
Saved(f, writes) ==
    IF writes = <<>> THEN f
    ELSE Saved([f EXCEPT ![Head(writes).data_type] = Head(writes).data], Tail(writes))

\* a call whose save leaves a file that was not valid JSON as it was
CallKeepingDamage(op, arg, r) ==
    /\ files' = Saved(files, r.writes)
    /\ unreadable' = unreadable
    /\ last' = [op |-> op, arg |-> arg, ok |-> r.ok, msg |-> r.msg,
                repaired |-> {}]
    /\ UNCHANGED <<now, pc, frame>>

\* a method ran to its return: its saves are on disk, its result is with the caller;
\* last.repaired are the data types whose file the saves rewrote from absent or
\* invalid
Call(op, arg, r) ==
    /\ files' = Saved(files, r.writes)
    /\ unreadable' = unreadable \ { r.writes[i].data_type : i \in DOMAIN r.writes }
    /\ last' = [op |-> op, arg |-> arg, ok |-> r.ok, msg |-> r.msg,
                repaired |-> unreadable \cap { r.writes[i].data_type : i \in DOMAIN r.writes }]
    /\ UNCHANGED <<now, pc, frame>>

\* a method that saves nothing ran to its return, at the instant last.at, and gave
\* back value
ReadCall(op, arg, value) ==
    /\ last' = [op |-> op, arg |-> arg, ok |-> TRUE, msg |-> "", value |-> value,
                at |-> now]
    /\ UNCHANGED <<files, unreadable, now, pc, frame>>

\* the locals of a caller that is in no call
NoFrame == [op |-> "none", data |-> <<>>, loaded |-> <<>>, result |-> Result(FALSE, "", <<>>)]

(***************************************************************************)
(* Vehicles.                                                               *)
(***************************************************************************)
PlateExists(vehicles, plate_number) ==
    \E i \in DOMAIN vehicles : vehicles[i]["plate_number"] = plate_number

\* an id that counts from 0
NextIdFromZero(collection) == Len(collection)

NextId(collection) == Len(collection) + 1

\* data['created_at'] = datetime.now().isoformat(); data['id'] = len(collection) + 1
Stamped(data, collection, t) ==
    SetItem(SetItem(data, "created_at", IsoFormat(t)), "id", NextId(collection))

\* add_vehicle, with vehicles the list it loaded and t the clock it read
add_vehicle(vehicles, vehicle_data, t) ==
    IF PlateExists(vehicles, vehicle_data["plate_number"])
    THEN Result(FALSE, "Vehicle with this plate number already exists", <<>>)
    ELSE Result(TRUE, "Vehicle added successfully",
                << Write("vehicles", Append(vehicles, Stamped(vehicle_data, vehicles, t))) >>)

\* a search that falls back on the first record when no plate number matches
FirstMatchOrFirst(vehicles, plate_number) ==
    IF \E i \in DOMAIN vehicles : vehicles[i]["plate_number"] = plate_number
    THEN CHOOSE i \in DOMAIN vehicles :
            /\ vehicles[i]["plate_number"] = plate_number
            /\ \A j \in 1..(i - 1) : vehicles[j]["plate_number"] # plate_number
    ELSE IF vehicles # <<>> THEN 1 ELSE 0

\* the index of the first record with that plate number, 0 if there is none
FirstMatch(vehicles, plate_number) ==
    IF PlateExists(vehicles, plate_number)
    THEN CHOOSE i \in DOMAIN vehicles :
            /\ vehicles[i]["plate_number"] = plate_number
            /\ \A j \in 1..(i - 1) : vehicles[j]["plate_number"] # plate_number
    ELSE 0

\* an update that replaces the record by the supplied fields, keeping only its key
ReplacedRecord(vehicle, updated_data, t) ==
    SetItem(DictUpdate([plate_number |-> vehicle["plate_number"]], updated_data),
            "updated_at", IsoFormat(t))

\* vehicles[i].update(updated_data); vehicles[i]['updated_at'] = now
UpdatedRecord(vehicle, updated_data, t) ==
    SetItem(DictUpdate(vehicle, updated_data), "updated_at", IsoFormat(t))

\* an update_vehicle that saves the list without the record it matched
update_vehicle_removing(vehicles, plate_number, updated_data, t) ==
    LET i == FirstMatch(vehicles, plate_number) IN
    IF i # 0
    THEN Result(TRUE, "Vehicle updated successfully",
                << Write("vehicles",
                         SubSeq(vehicles, 1, i - 1) \o SubSeq(vehicles, i + 1, Len(vehicles))) >>)
    ELSE Result(FALSE, "Vehicle not found", <<>>)

update_vehicle(vehicles, plate_number, updated_data, t) ==
    LET i == FirstMatch(vehicles, plate_number) IN
    IF i # 0
    THEN Result(TRUE, "Vehicle updated successfully",
                << Write("vehicles",
                         [vehicles EXCEPT ![i] = UpdatedRecord(vehicles[i], updated_data, t)]) >>)
    ELSE Result(FALSE, "Vehicle not found", <<>>)

get_vehicles == load_data("vehicles")

\* the first record with that plate number; None is the empty dict here
get_vehicle_by_plate(plate_number) ==
    LET i == FirstMatch(load_data("vehicles"), plate_number) IN
    IF i # 0 THEN load_data("vehicles")[i] ELSE <<>>

(***************************************************************************)
(* Inventory and maintenance.                                              *)
(***************************************************************************)
\* d.get(k, default)
Get(d, k, default) == IF k \in DOMAIN d THEN d[k] ELSE default

Max(a, b) == IF a >= b THEN a ELSE b

\* the inventory after the oil check of add_maintenance_record, and whether it passed
OilStep(inventory, maintenance_data) ==
    IF Get(maintenance_data, "oil_changed", FALSE)
    THEN IF Get(inventory, "oil", 0) > 0
         THEN [ok |-> TRUE, inventory |-> [inventory EXCEPT !["oil"] = @ - 1]]
         ELSE [ok |-> FALSE, inventory |-> inventory]
    ELSE [ok |-> TRUE, inventory |-> inventory]

\* an air filter check that passes without taking the filter from the stock
AirFilterStepTakesNone(inventory, maintenance_data) ==
    IF Get(maintenance_data, "air_filter_changed", FALSE)
    THEN [ok |-> Get(inventory, "air_filter", 0) > 0, inventory |-> inventory]
    ELSE [ok |-> TRUE, inventory |-> inventory]

AirFilterStep(inventory, maintenance_data) ==
    IF Get(maintenance_data, "air_filter_changed", FALSE)
    THEN IF Get(inventory, "air_filter", 0) > 0
         THEN [ok |-> TRUE, inventory |-> [inventory EXCEPT !["air_filter"] = @ - 1]]
         ELSE [ok |-> FALSE, inventory |-> inventory]
    ELSE [ok |-> TRUE, inventory |-> inventory]

\* a tires check that takes one tire whatever the number changed
TiresStepTakesOne(inventory, maintenance_data) ==
    IF Get(maintenance_data, "tires_changed", 0) > 0
    THEN IF Get(inventory, "tires", 0) >= maintenance_data["tires_changed"]
         THEN [ok |-> TRUE, inventory |-> [inventory EXCEPT !["tires"] = @ - 1]]
         ELSE [ok |-> FALSE, inventory |-> inventory]
    ELSE [ok |-> TRUE, inventory |-> inventory]

TiresStep(inventory, maintenance_data) ==
    IF Get(maintenance_data, "tires_changed", 0) > 0
    THEN IF Get(inventory, "tires", 0) >= maintenance_data["tires_changed"]
         THEN [ok |-> TRUE,
               inventory |-> [inventory EXCEPT !["tires"] = @ - maintenance_data["tires_changed"]]]
         ELSE [ok |-> FALSE, inventory |-> inventory]
    ELSE [ok |-> TRUE, inventory |-> inventory]

\* an add_maintenance_record that saves the inventory as deducted so far when a
\* later check fails
add_maintenance_record_eager(maintenance_records, inventory, maintenance_data, t) ==
    LET oil == OilStep(inventory, maintenance_data)
        air == AirFilterStep(oil.inventory, maintenance_data)
        tires == TiresStep(air.inventory, maintenance_data)
    IN
    IF ~oil.ok THEN Result(FALSE, "Insufficient oil in inventory", <<>>)
    ELSE IF ~air.ok
    THEN Result(FALSE, "Insufficient air filters in inventory",
                << Write("inventory", oil.inventory) >>)
    ELSE IF ~tires.ok
    THEN Result(FALSE, "Insufficient tires in inventory",
                << Write("inventory", air.inventory) >>)
    ELSE Result(TRUE, "Maintenance record added successfully",
                << Write("inventory", tires.inventory),
                   Write("maintenance",
                         Append(maintenance_records,
                                Stamped(maintenance_data, maintenance_records, t))) >>)

\* add_maintenance_record, with the two documents it loaded and the clock it read
\* an add_maintenance_record that saves the record before the inventory
add_maintenance_record_first(maintenance_records, inventory, maintenance_data, t) ==
    LET oil == OilStep(inventory, maintenance_data)
        air == AirFilterStep(oil.inventory, maintenance_data)
        tires == TiresStep(air.inventory, maintenance_data)
    IN
    IF ~oil.ok \/ ~air.ok \/ ~tires.ok THEN Result(FALSE, "Insufficient stock", <<>>)
    ELSE Result(TRUE, "Maintenance record added successfully",
                << Write("maintenance",
                         Append(maintenance_records,
                                Stamped(maintenance_data, maintenance_records, t))),
                   Write("inventory", tires.inventory) >>)

add_maintenance_record(maintenance_records, inventory, maintenance_data, t) ==
    LET oil == OilStep(inventory, maintenance_data)
        air == AirFilterStep(oil.inventory, maintenance_data)
        tires == TiresStep(air.inventory, maintenance_data)
    IN
    IF ~oil.ok THEN Result(FALSE, "Insufficient oil in inventory", <<>>)
    ELSE IF ~air.ok THEN Result(FALSE, "Insufficient air filters in inventory", <<>>)
    ELSE IF ~tires.ok THEN Result(FALSE, "Insufficient tires in inventory", <<>>)
    ELSE Result(TRUE, "Maintenance record added successfully",
                << Write("inventory", tires.inventory),
                   Write("maintenance",
                         Append(maintenance_records,
                                Stamped(maintenance_data, maintenance_records, t))) >>)

\* a subtraction that does not clamp
NewQuantityUnclamped(old, quantity, operation) ==
    CASE operation = "add" -> old + quantity
      [] operation = "subtract" -> old - quantity
      [] operation = "set" -> quantity
      [] OTHER -> old

\* the quantity update_inventory stores for the item
NewQuantity(old, quantity, operation) ==
    CASE operation = "add" -> old + quantity
      [] operation = "subtract" -> Max(0, old - quantity)
      [] operation = "set" -> quantity
      [] OTHER -> old

\* an update_inventory that starts an item the inventory does not hold at 1
update_inventory_absent_as_one(inventory, item_type, quantity, operation) ==
    Result(TRUE, "Inventory updated",
           << Write("inventory",
                    SetItem(inventory, item_type,
                            NewQuantity(Get(inventory, item_type, 1), quantity, operation))) >>)

\* update_inventory, with the inventory it loaded; the message is the f-string's
\* fixed part
update_inventory(inventory, item_type, quantity, operation) ==
    Result(TRUE, "Inventory updated",
           << Write("inventory",
                    SetItem(inventory, item_type,
                            NewQuantity(Get(inventory, item_type, 0), quantity, operation))) >>)

\* get_maintenance_records(), get_inventory(): no plate_number filter
get_maintenance_records == load_data("maintenance")

get_inventory == load_data("inventory")

(***************************************************************************)
(* Permits, token tax and loads.                                           *)
(***************************************************************************)
add_permit(permits, permit_data, t) ==
    Result(TRUE, "Permit added successfully",
           << Write("permits", Append(permits, Stamped(permit_data, permits, t))) >>)

\* an add_token_tax that saves its list as the permits document
add_token_tax_as_permits(tax_records, tax_data, t) ==
    Result(TRUE, "Token tax record added successfully",
           << Write("permits", Append(tax_records, Stamped(tax_data, tax_records, t))) >>)

add_token_tax(tax_records, tax_data, t) ==
    Result(TRUE, "Token tax record added successfully",
           << Write("token_tax", Append(tax_records, Stamped(tax_data, tax_records, t))) >>)

\* get_permits(), get_token_tax(): no plate_number filter
get_permits == load_data("permits")

get_token_tax == load_data("token_tax")

LoadNumberWidth == 6

\* a load number that counts the loads already there
LoadNumberOfLength(loads) == << "L", "D" >> \o ZeroPad(Len(loads), LoadNumberWidth)

\* f"LD{len(loads) + 1:06d}"
LoadNumber(loads) == << "L", "D" >> \o ZeroPad(Len(loads) + 1, LoadNumberWidth)

\* add_load, with new_load its load_data argument; the message is the f-string's
\* fixed part
add_load(loads, new_load, t) ==
    Result(TRUE, "Load added successfully",
           << Write("loads",
                    Append(loads,
                           Stamped(SetItem(new_load, "load_number", LoadNumber(loads)),
                                   loads, t))) >>)

\* get_loads(): no plate_number filter
get_loads == load_data("loads")

LoadExists(loads, load_number) ==
    \E i \in DOMAIN loads : loads[i]["load_number"] = load_number

\* the index of the first load with that load number, 0 if there is none
FirstLoad(loads, load_number) ==
    IF LoadExists(loads, load_number)
    THEN CHOOSE i \in DOMAIN loads :
            /\ loads[i]["load_number"] = load_number
            /\ \A j \in 1..(i - 1) : loads[j]["load_number"] # load_number
    ELSE 0

\* an update that sets the status of every load
update_load_status_of_all(loads, load_number, new_status, t) ==
    IF LoadExists(loads, load_number)
    THEN Result(TRUE, "Load status updated successfully",
                << Write("loads",
                         [i \in DOMAIN loads |->
                             SetItem(SetItem(loads[i], "status", new_status),
                                     "updated_at", IsoFormat(t))]) >>)
    ELSE Result(FALSE, "Load not found", <<>>)

\* update_load_status, with the loads it loaded
update_load_status(loads, load_number, new_status, t) ==
    LET i == FirstLoad(loads, load_number) IN
    IF i # 0
    THEN Result(TRUE, "Load status updated successfully",
                << Write("loads",
                         [loads EXCEPT ![i] =
                             SetItem(SetItem(loads[i], "status", new_status),
                                     "updated_at", IsoFormat(t))]) >>)
    ELSE Result(FALSE, "Load not found", <<>>)

(***************************************************************************)
(* Expiring documents and document compliance.                             *)
(***************************************************************************)
\* days to expire counted from the instant of the call, not from its date
DaysToExpireFromInstant(record, t) == DaysBetween(FromIsoFormat(record["expire_date"]), t)

\* days_to_expire = (fromisoformat(record['expire_date']).date() - current_date).days
DaysToExpire(record, t) == DateOf(FromIsoFormat(record["expire_date"])) - DateOf(t)

\* a view that leaves out the records already expired
ExpiringNotYetExpired(records, t, days_ahead) ==
    SelectSeq(records,
              LAMBDA r : DaysToExpire(r, t) >= 0 /\ DaysToExpire(r, t) <= days_ahead)

\* the loop of get_expiring_permits and get_expiring_taxes over the loaded records
Expiring(records, t, days_ahead) ==
    SelectSeq(records, LAMBDA r : DaysToExpire(r, t) <= days_ahead)

get_expiring_permits(days_ahead) == Expiring(load_data("permits"), now, days_ahead)

get_expiring_taxes(days_ahead) == Expiring(load_data("token_tax"), now, days_ahead)

\* a filter that takes a document expiring today as valid
ValidThroughToday(documents, plate, t) ==
    SelectSeq(documents,
              LAMBDA d : d["plate_number"] = plate
                         /\ DateOf(FromIsoFormat(d["expire_date"])) >= DateOf(t))

\* valid_permits, valid_taxes: the vehicle's documents that expire after today
ValidDocuments(documents, plate, t) ==
    SelectSeq(documents,
              LAMBDA d : d["plate_number"] = plate
                         /\ DateOf(FromIsoFormat(d["expire_date"])) > DateOf(t))

\* a decision that tests 'or' before 'and'
ComplianceStatusOrFirst(has_permit, has_tax) ==
    IF has_permit \/ has_tax THEN "Partial"
    ELSE IF has_permit /\ has_tax THEN "Compliant"
    ELSE "Non-Compliant"

\* if has_permit and has_tax ... elif has_permit or has_tax ... else
ComplianceStatus(has_permit, has_tax) ==
    IF has_permit /\ has_tax THEN "Compliant"
    ELSE IF has_permit \/ has_tax THEN "Partial"
    ELSE "Non-Compliant"

\* compliance_data of show_document_compliance, without the colour
show_document_compliance(vehicles, permits, tax_records, t) ==
    [i \in DOMAIN vehicles |->
        LET plate == vehicles[i]["plate_number"]
            valid_permits == ValidDocuments(permits, plate, t)
            valid_taxes == ValidDocuments(tax_records, plate, t)
        IN [vehicle |-> plate,
            status |-> ComplianceStatus(Len(valid_permits) > 0, Len(valid_taxes) > 0),
            permits |-> Len(valid_permits),
            taxes |-> Len(valid_taxes)]]

(***************************************************************************)
(* Maintenance alerts.                                                     *)
(***************************************************************************)
\* a < b of two texts (str comparison): at the first place they differ a has the
\* smaller character, or a ends there and b goes on
LexLess(a, b) ==
    \E i \in 1..(Len(b)) :
        /\ \A j \in 1..(i - 1) : j <= Len(a) /\ a[j] = b[j]
        /\ \/ i = Len(a) + 1
           \/ i <= Len(a) /\ a[i] # b[i] /\ a[i] < b[i]

\* x.get('created_at', '')
CreatedKey(record) == Get(record, "created_at", <<>>)

\* a choice of the record that stands last in the list
LastIndex(records) == Len(records)

\* max(records, key=created_at): the index of the first record whose key no other
\* key exceeds
MaxIndex(records) ==
    CHOOSE i \in DOMAIN records :
        /\ \A j \in DOMAIN records : ~LexLess(CreatedKey(records[i]), CreatedKey(records[j]))
        /\ \A j \in 1..(i - 1) : CreatedKey(records[j]) # CreatedKey(records[i])

\* the days after which a vehicle's last maintenance raises an alert, and a high one
AlertAfterDays == 90
HighAfterDays == 180

\* a loop body that alerts from the 90th day on
AlertsOfFrom(vehicle, maintenance_records, t) ==
    LET plate_number == vehicle["plate_number"]
        vehicle_maintenance ==
            SelectSeq(maintenance_records, LAMBDA m : m["plate_number"] = plate_number)
    IN IF vehicle_maintenance # <<>>
       THEN LET last_maintenance == vehicle_maintenance[MaxIndex(vehicle_maintenance)]
                last_date == FromIsoFormat(Get(last_maintenance, "created_at", IsoFormat(t)))
                days_since == DaysBetween(t, last_date)
            IN IF days_since >= AlertAfterDays
               THEN << [plate_number |-> plate_number,
                        alert |-> << "Last maintenance", days_since, "days ago" >>,
                        priority |-> IF days_since > HighAfterDays THEN "high" ELSE "medium"] >>
               ELSE <<>>
       ELSE << [plate_number |-> plate_number,
                alert |-> << "No maintenance records found" >>,
                priority |-> "high"] >>

\* the body of the loop over the vehicles: the alerts it appends for one vehicle
AlertsOf(vehicle, maintenance_records, t) ==
    LET plate_number == vehicle["plate_number"]
        vehicle_maintenance ==
            SelectSeq(maintenance_records, LAMBDA m : m["plate_number"] = plate_number)
    IN IF vehicle_maintenance # <<>>
       THEN LET last_maintenance == vehicle_maintenance[MaxIndex(vehicle_maintenance)]
                last_date == FromIsoFormat(Get(last_maintenance, "created_at", IsoFormat(t)))
                days_since == DaysBetween(t, last_date)
            IN IF days_since > AlertAfterDays
               THEN << [plate_number |-> plate_number,
                        alert |-> << "Last maintenance", days_since, "days ago" >>,
                        priority |-> IF days_since > HighAfterDays THEN "high" ELSE "medium"] >>
               ELSE <<>>
       ELSE << [plate_number |-> plate_number,
                alert |-> << "No maintenance records found" >>,
                priority |-> "high"] >>

RECURSIVE MaintenanceAlerts(_, _, _)
MaintenanceAlerts(vehicles, maintenance_records, t) ==
    IF vehicles = <<>> THEN <<>>
    ELSE AlertsOf(Head(vehicles), maintenance_records, t)
            \o MaintenanceAlerts(Tail(vehicles), maintenance_records, t)

get_maintenance_alerts ==
    MaintenanceAlerts(load_data("vehicles"), load_data("maintenance"), now)

(***************************************************************************)
(* Low stock alerts of the inventory page (src/inventory_module.py).       *)
(***************************************************************************)
\* reorder_levels.get(item_type, 5)
get_reorder_level(item_type) ==
    Get([oil |-> 5, air_filter |-> 10, tires |-> 8], item_type, 5)

\* item_key.replace('_', ' ').title(), on the item keys of the inventory
ItemName(item_key) ==
    CASE item_key = "oil" -> "Oil"
      [] item_key = "air_filter" -> "Air Filter"
      [] item_key = "tires" -> "Tires"
      [] OTHER -> item_key

\* the keys of the inventory dict in the order inventory.items() gives them: the
\* order of the default inventory
ItemsInOrder(inventory) ==
    SelectSeq(<< "oil", "air_filter", "tires" >>, LAMBDA k : k \in DOMAIN inventory)

\* a priority that is High only below half the reorder level
LowStockPriorityBelowHalf(quantity, reorder_level) ==
    IF quantity = 0 THEN "Critical"
    ELSE IF 2 * quantity < reorder_level THEN "High"
    ELSE "Medium"

\* "Critical" if quantity == 0 else "High" if quantity <= reorder_level * 0.5
\* else "Medium", on whole quantities
LowStockPriority(quantity, reorder_level) ==
    IF quantity = 0 THEN "Critical"
    ELSE IF 2 * quantity <= reorder_level THEN "High"
    ELSE "Medium"

\* low_stock_items of show_low_stock_alerts
show_low_stock_alerts(inventory) ==
    LET low == SelectSeq(ItemsInOrder(inventory),
                         LAMBDA k : inventory[k] <= get_reorder_level(k))
    IN [i \in DOMAIN low |->
           LET quantity == inventory[low[i]]
               reorder_level == get_reorder_level(low[i])
           IN [item |-> ItemName(low[i]),
               current_stock |-> quantity,
               reorder_level |-> reorder_level,
               priority |-> LowStockPriority(quantity, reorder_level),
               recommended_order |-> Max(reorder_level * 2 - quantity, reorder_level)]]

(***************************************************************************)
(* The add-load form (src/load_module.py).  Weights are whole KG; the rate *)
(* and the amounts of money are counted in hundredths, the step of the     *)
(* rate input.                                                             *)
(***************************************************************************)
\* the record the form passes to add_load
LoadRecord(plate_number, gross_weight, tare_weight, net_weight, rate_per_unit, amount, advance_payment) ==
    [plate_number |-> plate_number, gross_weight |-> gross_weight,
     tare_weight |-> tare_weight, net_weight |-> net_weight,
     rate_per_unit |-> rate_per_unit, amount |-> amount,
     advance_payment |-> advance_payment, pending_amount |-> amount - advance_payment,
     status |-> "Loading"]

\* a form that prices the gross weight
show_add_load_form_pricing_gross(gross_weight, tare_weight, rate_per_unit, advance_payment) ==
    LET vehicles == get_vehicles
        net_weight == IF gross_weight > tare_weight THEN gross_weight - tare_weight ELSE 0
        amount == gross_weight * rate_per_unit
    IN IF vehicles = <<>> THEN Result(FALSE, "No vehicles found", <<>>)
       ELSE IF gross_weight = 0 \/ tare_weight = 0 \/ rate_per_unit = 0
       THEN Result(FALSE, "Please fill in all required fields", <<>>)
       ELSE IF net_weight <= 0 THEN Result(FALSE, "Net weight must be positive", <<>>)
       ELSE add_load(load_data("loads"),
                     LoadRecord(vehicles[1]["plate_number"], gross_weight, tare_weight,
                                net_weight, rate_per_unit, amount, advance_payment),
                     now)

\* show_add_load_form, submitted with the first vehicle selected and the text
\* fields filled
show_add_load_form(gross_weight, tare_weight, rate_per_unit, advance_payment) ==
    LET vehicles == get_vehicles
        net_weight == IF gross_weight > tare_weight THEN gross_weight - tare_weight ELSE 0
        amount == net_weight * rate_per_unit
    IN IF vehicles = <<>> THEN Result(FALSE, "No vehicles found", <<>>)
       ELSE IF gross_weight = 0 \/ tare_weight = 0 \/ rate_per_unit = 0
       THEN Result(FALSE, "Please fill in all required fields", <<>>)
       ELSE IF net_weight <= 0 THEN Result(FALSE, "Net weight must be positive", <<>>)
       ELSE add_load(load_data("loads"),
                     LoadRecord(vehicles[1]["plate_number"], gross_weight, tare_weight,
                                net_weight, rate_per_unit, amount, advance_payment),
                     now)

(***************************************************************************)
(* The JSON text of a document.  A Python value is written as the pair of   *)
(* its type and its value: None, a bool, an int, a str (its characters), a *)
(* list (its items) or a dict (its <<key, value>> members in insertion     *)
(* order).  A text is the sequence of its characters; the literals null,   *)
(* true and false are one element each.                                    *)
(***************************************************************************)
Py(type, value) == <<type, value>>

DigitChars == <<"0", "1", "2", "3", "4", "5", "6", "7", "8", "9">>

\* a string written as it is, nothing escaped
EscapedAsIs(chars) == chars

\* json's encoder for the characters of a str: " and \ are escaped with \
RECURSIVE Escaped(_)
Escaped(chars) ==
    IF chars = <<>> THEN <<>>
    ELSE (IF Head(chars) \in {"\"", "\\"} THEN <<"\\", Head(chars)>> ELSE <<Head(chars)>>)
         \o Escaped(Tail(chars))

JsonString(chars) == <<"\"">> \o Escaped(chars) \o <<"\"">>

JsonNumber(n) ==
    LET d == Digits(IF n < 0 THEN -n ELSE n)
        text == [i \in 1..Len(d) |-> DigitChars[d[i] + 1]]
    IN  IF n < 0 THEN <<"-">> \o text ELSE text

\* json.dump(data, f, indent=2): items and members are separated by "," and a
\* new line, a key from its value by ": "; an empty list or dict has no line
RECURSIVE JsonDump(_)
JsonDump(v) ==
    LET RECURSIVE Joined(_)
        Joined(items) ==
            LET item == Head(items)
                text == IF v[1] = "dict"
                        THEN JsonString(item[1]) \o <<":", " ">> \o JsonDump(item[2])
                        ELSE JsonDump(item)
            IN  IF Len(items) = 1 THEN text
                ELSE text \o <<",", "\n">> \o Joined(Tail(items))
        open == IF v[1] = "dict" THEN "{" ELSE "["
        close == IF v[1] = "dict" THEN "}" ELSE "]"
    IN  CASE v[1] = "null" -> <<"null">>
          [] v[1] = "bool" -> IF v[2] THEN <<"true">> ELSE <<"false">>
          [] v[1] = "int" -> JsonNumber(v[2])
          [] v[1] = "str" -> JsonString(v[2])
          [] OTHER -> IF v[2] = <<>> THEN <<open, close>>
                      ELSE <<open, "\n">> \o Joined(v[2]) \o <<"\n", close>>

\* what a decoder returns: whether the text was valid so far, the value read
\* and the text that follows it
Decoded(value, rest) == [ok |-> TRUE, value |-> value, rest |-> rest]
JSONDecodeError == [ok |-> FALSE, value |-> Py("null", "None"), rest |-> <<>>]

\* the text without its leading white space
RECURSIVE SkipSpace(_)
SkipSpace(text) ==
    IF text # <<>> /\ Head(text) \in {" ", "\n"} THEN SkipSpace(Tail(text)) ELSE text

\* the decoder of a str, after its opening quote
RECURSIVE ParseChars(_, _)
ParseChars(text, chars) ==
    IF text = <<>> \/ Head(text) = "\n" THEN JSONDecodeError
    ELSE IF Head(text) = "\"" THEN Decoded(Py("str", chars), Tail(text))
    ELSE IF Head(text) = "\\"
         THEN IF Len(text) >= 2 /\ text[2] \in {"\"", "\\"}
              THEN ParseChars(Tail(Tail(text)), Append(chars, text[2]))
              ELSE JSONDecodeError
    ELSE ParseChars(Tail(text), Append(chars, Head(text)))

\* the decoder of the digits of an int
RECURSIVE ParseDigits(_, _)
ParseDigits(text, n) ==
    IF text # <<>> /\ \E d \in 1..10 : DigitChars[d] = Head(text)
    THEN ParseDigits(Tail(text),
                     10 * n + (CHOOSE d \in 1..10 : DigitChars[d] = Head(text)) - 1)
    ELSE Decoded(n, text)

\* the decoder of a value, of the items of a list and of the members of a dict
RECURSIVE ParseValue(_), ParseItems(_, _), ParseMembers(_, _)
ParseValue(text) ==
    LET t == SkipSpace(text)
        IsDigit(c) == \E d \in 1..10 : DigitChars[d] = c
    IN  IF t = <<>> THEN JSONDecodeError
        ELSE CASE Head(t) = "null" -> Decoded(Py("null", "None"), Tail(t))
               [] Head(t) = "true" -> Decoded(Py("bool", TRUE), Tail(t))
               [] Head(t) = "false" -> Decoded(Py("bool", FALSE), Tail(t))
               [] Head(t) = "\"" -> ParseChars(Tail(t), <<>>)
               [] IsDigit(Head(t)) ->
                    LET r == ParseDigits(t, 0) IN Decoded(Py("int", r.value), r.rest)
               [] Head(t) = "-" ->
                    IF Len(t) >= 2 /\ IsDigit(t[2])
                    THEN LET r == ParseDigits(Tail(t), 0)
                         IN  Decoded(Py("int", 0 - r.value), r.rest)
                    ELSE JSONDecodeError
               [] Head(t) = "[" ->
                    IF SkipSpace(Tail(t)) # <<>> /\ Head(SkipSpace(Tail(t))) = "]"
                    THEN Decoded(Py("list", <<>>), Tail(SkipSpace(Tail(t))))
                    ELSE ParseItems(Tail(t), <<>>)
               [] Head(t) = "{" ->
                    IF SkipSpace(Tail(t)) # <<>> /\ Head(SkipSpace(Tail(t))) = "}"
                    THEN Decoded(Py("dict", <<>>), Tail(SkipSpace(Tail(t))))
                    ELSE ParseMembers(Tail(t), <<>>)
               [] OTHER -> JSONDecodeError

ParseItems(text, items) ==
    LET r == ParseValue(text)
        t == SkipSpace(r.rest)
    IN  IF ~r.ok \/ t = <<>> THEN JSONDecodeError
        ELSE IF Head(t) = "," THEN ParseItems(Tail(t), Append(items, r.value))
        ELSE IF Head(t) = "]" THEN Decoded(Py("list", Append(items, r.value)), Tail(t))
        ELSE JSONDecodeError

ParseMembers(text, members) ==
    LET t == SkipSpace(text)
        key == IF t # <<>> /\ Head(t) = "\"" THEN ParseChars(Tail(t), <<>>)
               ELSE JSONDecodeError
        colon == SkipSpace(key.rest)
        r == IF key.ok /\ colon # <<>> /\ Head(colon) = ":" THEN ParseValue(Tail(colon))
             ELSE JSONDecodeError
        after == SkipSpace(r.rest)
        member == <<key.value[2], r.value>>
    IN  IF ~r.ok \/ after = <<>> THEN JSONDecodeError
        ELSE IF Head(after) = "," THEN ParseMembers(Tail(after), Append(members, member))
        ELSE IF Head(after) = "}" THEN Decoded(Py("dict", Append(members, member)), Tail(after))
        ELSE JSONDecodeError

\* json.load(f): the value the whole text writes
JsonLoad(text) ==
    LET r == ParseValue(text)
    IN  IF r.ok /\ SkipSpace(r.rest) = <<>> THEN r ELSE JSONDecodeError

\* the default documents, as Python values
DefaultValue(data_type) ==
    IF data_type = "inventory"
    THEN Py("dict", << <<<<"o", "i", "l">>, Py("int", 0)>>,
                       <<<<"a", "i", "r", "_", "f", "i", "l", "t", "e", "r">>, Py("int", 0)>>,
                       <<<<"t", "i", "r", "e", "s">>, Py("int", 0)>> >>)
    ELSE Py("list", <<>>)

(***************************************************************************)
(* The alert section of the dashboard: its maintenance alerts.             *)
(***************************************************************************)
\* show_alerts_section, up to the end of its maintenance alerts: the for loop
\* over maintenance_alerts only binds alert and alert_type; the if on
\* alert['priority'] comes after the loop, at the indentation of the function
\* body, and so runs once, on the alert the loop ended with.  With no alerts the
\* name alert is not bound and reading it raises UnboundLocalError.  An entry is
\* the plate and the text of the line that is appended.
show_alerts_section(maintenance_alerts) ==
    IF maintenance_alerts = <<>>
    THEN [error |-> "UnboundLocalError", critical_alerts |-> <<>>, warning_alerts |-> <<>>]
    ELSE LET alert == maintenance_alerts[Len(maintenance_alerts)]
             alert_type == IF "alert_type" \in DOMAIN alert THEN alert["alert_type"]
                           ELSE Get(alert, "alert", << "No details" >>)
             line == [plate_number |-> alert["plate_number"], alert_type |-> alert_type]
         IN  IF alert["priority"] = "high"
             THEN [error |-> "", critical_alerts |-> << line >>, warning_alerts |-> <<>>]
             ELSE [error |-> "", critical_alerts |-> <<>>, warning_alerts |-> << line >>]

(***************************************************************************)
(* The forms of the vehicle page.                                          *)
(***************************************************************************)
\* a form that passes the plate number on as typed
show_add_vehicle_form_as_typed(plate_number, driver_name, status) ==
    IF plate_number = <<>> \/ driver_name = <<>>
    THEN Result(FALSE, "Plate Number and Driver Name are required fields!", <<>>)
    ELSE add_vehicle(load_data("vehicles"),
                     [plate_number |-> plate_number,
                      driver_name |-> driver_name,
                      status |-> status],
                     now)

\* the submit branch of show_add_vehicle_form; the fields the form passes on
\* unchanged are stood for by driver_name and status
show_add_vehicle_form(plate_number, driver_name, status) ==
    IF plate_number = <<>> \/ driver_name = <<>>
    THEN Result(FALSE, "Plate Number and Driver Name are required fields!", <<>>)
    ELSE add_vehicle(load_data("vehicles"),
                     [plate_number |-> Upper(plate_number),
                      driver_name |-> driver_name,
                      status |-> status],
                     now)

\* the Update button of show_vehicle_list, on the vehicle shown at index i
show_vehicle_list_update(i, new_status) ==
    update_vehicle(load_data("vehicles"), get_vehicles[i]["plate_number"],
                   [status |-> new_status], now)

\* the submit branch of show_edit_vehicle_form, on the vehicle selected
show_edit_vehicle_form(selected_plate, driver_name, status) ==
    IF driver_name = <<>>
    THEN Result(FALSE, "Driver name is required!", <<>>)
    ELSE update_vehicle(load_data("vehicles"), selected_plate,
                        [driver_name |-> driver_name, status |-> status], now)

(***************************************************************************)
(* The clock.                                                              *)
(***************************************************************************)
Tick ==
    /\ now < MaxClock
    /\ now' = now + 1
    /\ last' = [op |-> "tick", arg |-> <<>>, ok |-> TRUE, msg |-> ""]
    /\ UNCHANGED <<files, unreadable, pc, frame>>

(***************************************************************************)
(* Specification of the vehicle operations of the data layer.              *)
(***************************************************************************)
Init ==
    /\ files = [t \in data_files |-> default_data(t)]
    /\ unreadable = {}
    /\ now = 1
    /\ last = [op |-> "init", arg |-> <<>>, ok |-> TRUE, msg |-> ""]
    /\ pc = [c \in Callers |-> "idle"]
    /\ frame = [c \in Callers |-> NoFrame]

CallAddVehicle(d) ==
    LET r == add_vehicle(load_data("vehicles"), d, now) IN
    /\ r.ok => Len(load_data("vehicles")) < MaxVehicles
    /\ Call("add_vehicle", d, r)

CallUpdateVehicle(p, u) ==
    Call("update_vehicle", [plate_number |-> p, updated_data |-> u],
         update_vehicle(load_data("vehicles"), p, u, now))

AddVehicle == \E d \in VehicleData : CallAddVehicle(d)

UpdateVehicle == \E p \in Plates, u \in VehicleUpdates : CallUpdateVehicle(p, u)

Next == AddVehicle \/ UpdateVehicle \/ Tick

Spec == Init /\ [][Next]_vars

(***************************************************************************)
(* Specification of the stock operations: update_inventory and             *)
(* add_maintenance_record, from the default inventory.                     *)
(***************************************************************************)
CallUpdateInventory(item_type, quantity, operation) ==
    LET inventory == load_data("inventory")
        r == update_inventory(inventory, item_type, quantity, operation)
    IN
    /\ r.writes[1].data[item_type] \in (-1)..MaxStock
    /\ Call("update_inventory",
            [item_type |-> item_type, quantity |-> quantity, operation |-> operation], r)

CallAddMaintenance(d) ==
    LET r == add_maintenance_record(load_data("maintenance"), load_data("inventory"), d, now) IN
    /\ r.ok => Len(load_data("maintenance")) < MaxRecords
    /\ Call("add_maintenance_record", d, r)

UpdateInventory ==
    \E i \in Items, q \in Quantities, o \in Operations : CallUpdateInventory(i, q, o)

AddMaintenance == \E d \in MaintenanceData : CallAddMaintenance(d)

NextStock == UpdateInventory \/ AddMaintenance

SpecStock == Init /\ [][NextStock]_vars

(***************************************************************************)
(* Specification of the vehicle page: vehicles are added and edited        *)
(* through the forms.                                                      *)
(***************************************************************************)
SubmitAddVehicle(raw, driver_name, status) ==
    LET r == show_add_vehicle_form(raw, driver_name, status) IN
    /\ r.ok => Len(load_data("vehicles")) < MaxVehicles
    /\ Call("show_add_vehicle_form", raw, r)

ClickUpdateStatus(i, new_status) ==
    /\ i \in DOMAIN get_vehicles
    /\ new_status # get_vehicles[i]["status"]
    /\ Call("show_vehicle_list", get_vehicles[i]["plate_number"],
            show_vehicle_list_update(i, new_status))

SubmitEditVehicle(i, driver_name, status) ==
    /\ i \in DOMAIN get_vehicles
    /\ get_vehicle_by_plate(get_vehicles[i]["plate_number"]) # <<>>
    /\ Call("show_edit_vehicle_form", get_vehicles[i]["plate_number"],
            show_edit_vehicle_form(get_vehicles[i]["plate_number"], driver_name, status))

AddVehicleForm ==
    \E raw \in RawPlates, dn \in DriverNames, st \in Statuses : SubmitAddVehicle(raw, dn, st)

VehicleListUpdate ==
    \E i \in 1..MaxVehicles, st \in Statuses : ClickUpdateStatus(i, st)

EditVehicleForm ==
    \E i \in 1..MaxVehicles, dn \in DriverNames, st \in Statuses : SubmitEditVehicle(i, dn, st)

NextForms == AddVehicleForm \/ VehicleListUpdate \/ EditVehicleForm \/ Tick

SpecForms == Init /\ [][NextForms]_vars

(***************************************************************************)
(* Specification of the add operations of the five list-typed entities,    *)
(* from a stocked inventory.                                               *)
(***************************************************************************)
InitStocked ==
    /\ files = [t \in data_files |->
                   IF t = "inventory"
                   THEN [oil |-> MaxStock, air_filter |-> MaxStock, tires |-> MaxStock]
                   ELSE default_data(t)]
    /\ unreadable = {}
    /\ now = 1
    /\ last = [op |-> "init", arg |-> <<>>, ok |-> TRUE, msg |-> ""]
    /\ pc = [c \in Callers |-> "idle"]
    /\ frame = [c \in Callers |-> NoFrame]

CallAddPermit(d) ==
    /\ Len(load_data("permits")) < MaxDocs
    /\ Call("add_permit", d, add_permit(load_data("permits"), d, now))

CallAddTokenTax(d) ==
    /\ Len(load_data("token_tax")) < MaxDocs
    /\ Call("add_token_tax", d, add_token_tax(load_data("token_tax"), d, now))

CallAddLoad(d) ==
    /\ Len(load_data("loads")) < MaxDocs
    /\ Call("add_load", d, add_load(load_data("loads"), d, now))

AddPermit == \E d \in PermitData : CallAddPermit(d)

AddTokenTax == \E d \in TaxData : CallAddTokenTax(d)

AddLoad == \E d \in LoadData : CallAddLoad(d)

NextAdd == AddVehicle \/ AddMaintenance \/ AddPermit \/ AddTokenTax \/ AddLoad

SpecAdd == InitStocked /\ [][NextAdd]_vars

(***************************************************************************)
(* Specification of concurrent add calls.  The collections are first       *)
(* filled by calls that run one at a time; then each session makes one     *)
(* add call, running the method's steps (load the document, stamp and      *)
(* append in memory, save the document), and the steps of the sessions     *)
(* interleave.  There is no lock.                                          *)
(***************************************************************************)
AddOps == {"add_vehicle", "add_permit", "add_token_tax", "add_load"}

DataTypeOf(op) ==
    CASE op = "add_vehicle" -> "vehicles"
      [] op = "add_permit" -> "permits"
      [] op = "add_token_tax" -> "token_tax"
      [] op = "add_load" -> "loads"

DataOf(op) ==
    CASE op = "add_vehicle" -> VehicleData
      [] op = "add_permit" -> PermitData
      [] op = "add_token_tax" -> TaxData
      [] op = "add_load" -> LoadData

\* what the method computes from the document it loaded
Method(op, loaded, d, t) ==
    CASE op = "add_vehicle" -> add_vehicle(loaded, d, t)
      [] op = "add_permit" -> add_permit(loaded, d, t)
      [] op = "add_token_tax" -> add_token_tax(loaded, d, t)
      [] op = "add_load" -> add_load(loaded, d, t)

\* the call begins: collection = self.load_data(type)
LoadStep(c, op, d) ==
    /\ pc[c] = "idle"
    /\ Len(load_data(DataTypeOf(op))) <= MaxDocs
    /\ pc' = [pc EXCEPT ![c] = "loaded"]
    /\ frame' = [frame EXCEPT ![c] =
                    [op |-> op, data |-> d, loaded |-> load_data(DataTypeOf(op)),
                     result |-> Result(FALSE, "", <<>>)]]
    /\ UNCHANGED <<files, unreadable, now, last>>

\* the duplicate check, the stamps and the append, on the loaded list
StampStep(c) ==
    /\ pc[c] = "loaded"
    /\ pc' = [pc EXCEPT ![c] = "stamped"]
    /\ frame' = [frame EXCEPT ![c].result =
                    Method(frame[c].op, frame[c].loaded, frame[c].data, now)]
    /\ UNCHANGED <<files, unreadable, now, last>>

\* self.save_data(type, collection) and the return
SaveStep(c) ==
    /\ pc[c] = "stamped"
    /\ pc' = [pc EXCEPT ![c] = "done"]
    /\ files' = Saved(files, frame[c].result.writes)
    /\ unreadable' = unreadable \
          { frame[c].result.writes[i].data_type : i \in DOMAIN frame[c].result.writes }
    /\ last' = [op |-> frame[c].op, arg |-> c,
                ok |-> frame[c].result.ok, msg |-> frame[c].result.msg]
    /\ UNCHANGED <<now, frame>>

Load == \E c \in Callers, op \in AddOps : \E d \in DataOf(op) : LoadStep(c, op, d)

Stamp == \E c \in Callers : StampStep(c)

Save == \E c \in Callers : SaveStep(c)

\* a call that runs alone, before the sessions start theirs
Alone == \A c \in Callers : pc[c] = "idle"

Fill ==
    /\ Alone
    /\ \/ \E d \in VehicleData : CallAddVehicle(d)
       \/ \E d \in PermitData : CallAddPermit(d)
       \/ \E d \in TaxData : CallAddTokenTax(d)
       \/ \E d \in LoadData : CallAddLoad(d)

NextRace == Fill \/ Load \/ Stamp \/ Save

SpecRace == Init /\ [][NextRace]_vars

(***************************************************************************)
(* Specification of one caller that only adds, from empty collections,     *)
(* long enough for a load number of two digits.                            *)
(***************************************************************************)
\* one add call of the method op, run alone, while the list is shorter than bound
SeqAdd(op, d, bound) ==
    /\ Len(load_data(DataTypeOf(op))) < bound
    /\ Call(op, d, Method(op, load_data(DataTypeOf(op)), d, now))

\* a maintenance record that uses no stock
SeqAddMaintenance(d) ==
    /\ Len(load_data("maintenance")) < MaxSeq
    /\ ~d["oil_changed"] /\ ~d["air_filter_changed"] /\ d["tires_changed"] = 0
    /\ Call("add_maintenance_record", d,
            add_maintenance_record(load_data("maintenance"), load_data("inventory"), d, now))

NextIds ==
    \/ \E d \in VehicleData : SeqAdd("add_vehicle", d, MaxSeq)
    \/ \E d \in MaintenanceData : SeqAddMaintenance(d)
    \/ \E d \in PermitData : SeqAdd("add_permit", d, MaxSeq)
    \/ \E d \in TaxData : SeqAdd("add_token_tax", d, MaxSeq)
    \/ \E d \in LoadData :
          d["plate_number"] = <<"A", "1">> /\ SeqAdd("add_load", d, MaxLoads)

SpecIds == Init /\ [][NextIds]_vars

(***************************************************************************)
(* Specification of the data layer over files that can be lost or damaged  *)
(* from outside: a file is deleted, or left holding text that is not JSON. *)
(***************************************************************************)
\* the file of data_type is deleted or damaged; what it held is out of reach
Damage(data_type) ==
    /\ data_type \notin unreadable
    /\ Cardinality(unreadable) < MaxFaults
    /\ unreadable' = unreadable \cup {data_type}
    /\ last' = [op |-> "damage", arg |-> data_type, ok |-> TRUE, msg |-> ""]
    /\ UNCHANGED <<files, now, pc, frame>>

\* the file is damaged, load_data is called by a reader, or a method that saves
\* is called
NextFaults ==
    \/ \E data_type \in data_files : Damage(data_type)
    \/ \E data_type \in data_files : ReadCall("load_data", data_type, load_data(data_type))
    \/ \E d \in VehicleData : SeqAdd("add_vehicle", d, MaxDocs)
    \/ \E d \in PermitData : SeqAdd("add_permit", d, MaxDocs)
    \/ \E d \in MaintenanceData :
          /\ d["tires_changed"] = 0 /\ ~d["air_filter_changed"]
          /\ CallAddMaintenance(d)
    \/ \E operation \in {"add", "set"} : CallUpdateInventory("oil", 1, operation)

SpecFaults == Init /\ [][NextFaults]_vars

(***************************************************************************)
(* Specification of update_inventory alone, called with any item key.      *)
(***************************************************************************)
NextInventory ==
    \E i \in ItemKeys, q \in Quantities, o \in Operations : CallUpdateInventory(i, q, o)

SpecInventory == Init /\ [][NextInventory]_vars

(***************************************************************************)
(* Specification of the load operations: add_load and update_load_status.  *)
(***************************************************************************)
\* the arguments of update_load_status: the numbers of the loads there can be and
\* one more, and the statuses a load moves to
LoadNumbers == { << "L", "D" >> \o ZeroPad(k, LoadNumberWidth) : k \in 1..(MaxSeq + 1) }
LoadStatuses == {"In Transit", "Delivered"}

CallUpdateLoadStatus(load_number, new_status) ==
    Call("update_load_status", [load_number |-> load_number, new_status |-> new_status],
         update_load_status(load_data("loads"), load_number, new_status, now))

NextLoads ==
    \/ \E d \in LoadData : SeqAdd("add_load", d, MaxSeq)
    \/ \E load_number \in LoadNumbers, new_status \in LoadStatuses :
          CallUpdateLoadStatus(load_number, new_status)

SpecLoads == Init /\ [][NextLoads]_vars

(***************************************************************************)
(* Specification of the expiring-document views and of document            *)
(* compliance.  The clock starts on day 100, at either time of day; the    *)
(* fleet is two vehicles; permits and tax records are added with expire    *)
(* dates before, on and after that day, and the views are read.            *)
(***************************************************************************)
AbcPlate == <<"A", "B", "C", "-", "1", "2", "3">>

DocPlates == { AbcPlate, <<"B", "1">> }

\* the days permits expire on: yesterday, today, in 5 days, in 40 days; and tax
\* records: yesterday, today, in 40 days
PermitExpireDays == {99, 100, 105, 140}
TaxExpireDays == {99, 100, 140}

\* permit_data and tax_data with expire_date.isoformat() of the forms; the second
\* vehicle's documents are far from expiry
DatedPermitData ==
    { d \in [plate_number : DocPlates, permit_number : { <<"P", "7">> },
             expire_date : { DateIsoFormat(day) : day \in PermitExpireDays }] :
        d["plate_number"] = AbcPlate \/ d["expire_date"] = DateIsoFormat(140) }

DatedTaxData ==
    { d \in [plate_number : DocPlates, tax_amount : {100},
             expire_date : { DateIsoFormat(day) : day \in TaxExpireDays }] :
        d["plate_number"] = AbcPlate \/ d["expire_date"] = DateIsoFormat(140) }

\* the days_ahead the views are read with (the pages pass 30)
DaysAhead == {0, 30}

\* the vehicles file after add_vehicle of each of the plates, in order, at instant t
RECURSIVE FleetOf(_, _)
FleetOf(plates, t) ==
    IF plates = <<>> THEN <<>>
    ELSE add_vehicle(FleetOf(SubSeq(plates, 1, Len(plates) - 1), t),
                     [plate_number |-> plates[Len(plates)], status |-> "Active"],
                     t).writes[1].data

InitDocs ==
    /\ now \in { 100 * TicksPerDay, 100 * TicksPerDay + 1 }
    /\ files = [data_type \in data_files |->
                   IF data_type = "vehicles" THEN FleetOf(<< AbcPlate, <<"B", "1">> >>, now)
                   ELSE default_data(data_type)]
    /\ unreadable = {}
    /\ last = [op |-> "init", arg |-> <<>>, ok |-> TRUE, msg |-> ""]
    /\ pc = [c \in Callers |-> "idle"]
    /\ frame = [c \in Callers |-> NoFrame]

NextDocs ==
    \/ \E d \in DatedPermitData : SeqAdd("add_permit", d, MaxSeq)
    \/ \E d \in DatedTaxData : SeqAdd("add_token_tax", d, MaxSeq)
    \/ \E days_ahead \in DaysAhead :
          ReadCall("get_expiring_permits", days_ahead, get_expiring_permits(days_ahead))
    \/ \E days_ahead \in DaysAhead :
          ReadCall("get_expiring_taxes", days_ahead, get_expiring_taxes(days_ahead))
    \/ ReadCall("show_document_compliance", <<>>,
                show_document_compliance(get_vehicles, get_permits, get_token_tax, now))

SpecDocs == InitDocs /\ [][NextDocs]_vars

(***************************************************************************)
(* Specification of the maintenance alerts.  The fleet is on file; the     *)
(* wall clock moves between a few instants, forward as time passes or      *)
(* back as it is set; maintenance records are added at those instants and  *)
(* the alerts are read.                                                    *)
(***************************************************************************)
\* the instants of the clock: the last instant of day 200, and both instants of the
\* days 91 and 181 days later
AlertInstants ==
    { 200 * TicksPerDay + (TicksPerDay - 1),
      291 * TicksPerDay, 291 * TicksPerDay + (TicksPerDay - 1),
      381 * TicksPerDay, 381 * TicksPerDay + (TicksPerDay - 1) }

\* maintenance_data of a service that uses no stock, dated by the form
DatedMaintenanceData ==
    [plate_number : { <<"A", "1">> },
     maintenance_date : { DateIsoFormat(150), DateIsoFormat(390) },
     oil_changed : {FALSE}, air_filter_changed : {FALSE}, tires_changed : {0}]

\* the vehicles on file when the alerts are read
Fleets(t) ==
    { FleetOf(plates, t) :
        plates \in { <<>>, << <<"A", "1">> >>, << <<"B", "1">> >>,
                     << <<"A", "1">>, <<"B", "1">> >>, << <<"B", "1">>, <<"A", "1">> >> } }

InitAlerts ==
    /\ now = 200 * TicksPerDay + (TicksPerDay - 1)
    /\ \E vehicles \in Fleets(now) :
          files = [data_type \in data_files |->
                      IF data_type = "vehicles" THEN vehicles ELSE default_data(data_type)]
    /\ unreadable = {}
    /\ last = [op |-> "init", arg |-> <<>>, ok |-> TRUE, msg |-> ""]
    /\ pc = [c \in Callers |-> "idle"]
    /\ frame = [c \in Callers |-> NoFrame]

\* datetime.now() gives another instant from here on
SetClock ==
    /\ \E t \in AlertInstants \ {now} : now' = t
    /\ last' = [op |-> "tick", arg |-> <<>>, ok |-> TRUE, msg |-> ""]
    /\ UNCHANGED <<files, unreadable, pc, frame>>

NextAlerts ==
    \/ SetClock
    \/ \E d \in DatedMaintenanceData : SeqAddMaintenance(d)
    \/ ReadCall("get_maintenance_alerts", <<>>, get_maintenance_alerts)
    \/ ReadCall("show_alerts_section", <<>>, show_alerts_section(get_maintenance_alerts))

SpecAlerts == InitAlerts /\ [][NextAlerts]_vars

(***************************************************************************)
(* Specification of the low stock alerts: the inventory on file holds      *)
(* quantities around each item's reorder level, and the alerts are read.   *)
(***************************************************************************)
\* the inventories on file: every oil quantity from -1 to 6, and the air filter
\* and tire quantities at and next to 0, half the reorder level and the level
StockedInventories ==
    [oil : (-1)..6, air_filter : {0, 5, 6, 10, 11, 12}, tires : {0, 3, 4, 5, 8, 9}]

InitLowStock ==
    /\ now = 1
    /\ \E inventory \in StockedInventories :
          files = [data_type \in data_files |->
                      IF data_type = "inventory" THEN inventory ELSE default_data(data_type)]
    /\ unreadable = {}
    /\ last = [op |-> "init", arg |-> <<>>, ok |-> TRUE, msg |-> ""]
    /\ pc = [c \in Callers |-> "idle"]
    /\ frame = [c \in Callers |-> NoFrame]

NextLowStock ==
    ReadCall("show_low_stock_alerts", <<>>, show_low_stock_alerts(get_inventory))

SpecLowStock == InitLowStock /\ [][NextLowStock]_vars

(***************************************************************************)
(* Specification of the add-load form: vehicles are added and the form is  *)
(* submitted with weights, a rate and an advance payment.                  *)
(***************************************************************************)
\* what is entered: weights in KG, the rate (0, 2.50) and the advance payment
\* (0, 5000.00, 20000.00) in hundredths
LoadFormInputs ==
    [gross_weight : {0, 4000, 10000}, tare_weight : {0, 4000, 10000},
     rate_per_unit : {0, 250}, advance_payment : {0, 500000, 2000000}]

NextLoadForm ==
    \/ \E d \in VehicleData : SeqAdd("add_vehicle", d, MaxDocs)
    \/ \E f \in LoadFormInputs :
          LET r == show_add_load_form(f["gross_weight"], f["tare_weight"],
                                      f["rate_per_unit"], f["advance_payment"])
          IN /\ r.ok => Len(load_data("loads")) < MaxSeq
             /\ Call("show_add_load_form", f, r)

SpecLoadForm == Init /\ [][NextLoadForm]_vars

(***************************************************************************)
(* Specification of the read methods.  One record of each kind is on file, *)
(* added on day 200; the reads are called, 91 and 92 days later, and the   *)
(* clock moves between the calls; update_inventory is the one mutation.    *)
(***************************************************************************)
\* the instants of the reads: both instants of day 291 and the first of day 292
ReadInstants == { 291 * TicksPerDay, 291 * TicksPerDay + (TicksPerDay - 1), 292 * TicksPerDay }

\* the files after one add of each kind at instant t; the permit and the tax
\* record expire on day 292
FilesAfterAdds(t) ==
    Saved([data_type \in data_files |-> default_data(data_type)],
          add_vehicle(<<>>, [plate_number |-> <<"A", "1">>, status |-> "Active"], t).writes
          \o add_maintenance_record(<<>>, default_data("inventory"),
                                    [plate_number |-> <<"A", "1">>, oil_changed |-> FALSE,
                                     air_filter_changed |-> FALSE, tires_changed |-> 0],
                                    t).writes
          \o add_permit(<<>>, [plate_number |-> <<"A", "1">>, permit_number |-> <<"P", "7">>,
                               expire_date |-> DateIsoFormat(292)], t).writes
          \o add_token_tax(<<>>, [plate_number |-> <<"A", "1">>, tax_amount |-> 100,
                                  expire_date |-> DateIsoFormat(292)], t).writes
          \o add_load(<<>>, [plate_number |-> <<"A", "1">>, status |-> "Loading"], t).writes)

InitReads ==
    /\ now \in ReadInstants
    /\ files = FilesAfterAdds(200 * TicksPerDay + (TicksPerDay - 1))
    /\ unreadable = {}
    /\ last = [op |-> "init", arg |-> <<>>, ok |-> TRUE, msg |-> ""]
    /\ pc = [c \in Callers |-> "idle"]
    /\ frame = [c \in Callers |-> NoFrame]

\* time passes between two calls
ClockMoves ==
    /\ \E t \in ReadInstants : t > now /\ now' = t
    /\ UNCHANGED <<files, unreadable, last, pc, frame>>

\* the read and derived-view methods of the data layer and what each returns
ReadMethods ==
    { <<"get_vehicles", <<>>, get_vehicles>>,
      <<"get_maintenance_records", <<>>, get_maintenance_records>>,
      <<"get_inventory", <<>>, get_inventory>>,
      <<"get_permits", <<>>, get_permits>>,
      <<"get_token_tax", <<>>, get_token_tax>>,
      <<"get_loads", <<>>, get_loads>>,
      <<"get_maintenance_alerts", <<>>, get_maintenance_alerts>> }
    \cup { <<"get_vehicle_by_plate", plate, get_vehicle_by_plate(plate)>> : plate \in Plates }
    \cup { <<"get_expiring_permits", <<days_ahead>>, get_expiring_permits(days_ahead)>> :
             days_ahead \in DaysAhead }
    \cup { <<"get_expiring_taxes", <<days_ahead>>, get_expiring_taxes(days_ahead)>> :
             days_ahead \in DaysAhead }

NextReads ==
    \/ ClockMoves
    \/ \E m \in ReadMethods : ReadCall(m[1], m[2], m[3])
    \/ CallUpdateInventory("oil", 1, "add")

SpecReads == InitReads /\ [][NextReads]_vars

(***************************************************************************)
(* Specification of the round trip through a file: one caller saves a      *)
(* value as a document, loads the document, and saves what it loaded.  The *)
(* files hold JSON text.                                                   *)
(***************************************************************************)
MaxItems == 2

\* values of the field types in use, and lists and dicts of them
JsonScalars ==
    { Py("null", "None"), Py("bool", TRUE), Py("bool", FALSE),
      Py("int", 0), Py("int", -7), Py("int", 120),
      Py("str", <<>>), Py("str", <<"a", "\"">>), Py("str", <<"\\", "]">>) }

JsonValues ==
    LET lists == { Py("list", items) :
                     items \in UNION { [1..n -> JsonScalars] : n \in 0..MaxItems } }
        dicts == { Py("dict", <<>>) } \cup
                 { Py("dict", << <<<<"i", "d">>, Py("int", 1)>>, <<<<"k">>, x>> >>) :
                     x \in JsonScalars }
    IN  JsonScalars \cup lists \cup dicts
        \cup { Py("list", <<x>>) : x \in lists \cup dicts }
        \cup { Py("dict", << <<<<"k">>, x>> >>) : x \in lists }

InitJson ==
    /\ now = 0
    /\ files = [data_type \in data_files |-> JsonDump(DefaultValue(data_type))]
    /\ unreadable = {}
    /\ last = [op |-> "init", arg |-> <<>>, ok |-> TRUE, msg |-> ""]
    /\ pc = [c \in Callers |-> "idle"]
    /\ \E data_type \in data_files, v \in JsonValues :
         frame = [c \in Callers |->
                    IF c = "c1" THEN [NoFrame EXCEPT !.op = "save_data",
                                                     !.data = <<data_type, v>>]
                    ELSE NoFrame]

NextJson ==
    LET data_type == frame["c1"].data[1]
        decoded == JsonLoad(files[data_type])
    IN  \/ /\ pc["c1"] = "idle"
           /\ files' = [files EXCEPT ![data_type] = JsonDump(frame["c1"].data[2])]
           /\ pc' = [pc EXCEPT !["c1"] = "saved"]
           /\ UNCHANGED <<unreadable, now, last, frame>>
        \/ /\ pc["c1"] = "saved"
           /\ frame' = [frame EXCEPT !["c1"].loaded =
                          IF decoded.ok THEN decoded.value ELSE DefaultValue(data_type)]
           /\ pc' = [pc EXCEPT !["c1"] = "loaded"]
           /\ UNCHANGED <<files, unreadable, now, last>>
        \/ /\ pc["c1"] = "loaded"
           /\ files' = [files EXCEPT ![data_type] = JsonDump(frame["c1"].loaded)]
           /\ pc' = [pc EXCEPT !["c1"] = "resaved"]
           /\ UNCHANGED <<unreadable, now, last, frame>>

SpecJson == InitJson /\ [][NextJson]_vars

(***************************************************************************)
(* Specification of the loads and saves of the stock methods.  Each caller *)
(* makes one call of add_maintenance_record or update_inventory, and the   *)
(* loads and saves of the two calls interleave in every order.  A frame    *)
(* holds what the call loaded and the writes it has still to make.         *)
(***************************************************************************)
InitSaves ==
    /\ now = 0
    /\ \E n \in 0..MaxStock :
         files = [ [data_type \in data_files |-> default_data(data_type)]
                     EXCEPT !["inventory"] = [i \in Items |-> n] ]
    /\ unreadable = {}
    /\ last = [op |-> "init", arg |-> <<>>, ok |-> TRUE, msg |-> ""]
    /\ pc = [c \in Callers |-> "idle"]
    /\ frame = [c \in Callers |-> NoFrame]

NextSaves ==
    \E c \in Callers :
        \* maintenance_records = self.load_data('maintenance')
        \/ /\ pc[c] = "idle"
           /\ \E d \in { m \in MaintenanceData : ~m.air_filter_changed } :
                frame' = [frame EXCEPT ![c] =
                            [op |-> "add_maintenance_record", data |-> d,
                             loaded |-> <<load_data("maintenance")>>,
                             result |-> Result(FALSE, "", <<>>)]]
           /\ pc' = [pc EXCEPT ![c] = "loading"]
           /\ UNCHANGED <<files, unreadable, now, last>>
        \* inventory = self.load_data('inventory'), the checks and the deductions
        \/ /\ pc[c] = "loading"
           /\ frame' = [frame EXCEPT
                          ![c].loaded = Append(@, load_data("inventory")),
                          ![c].result = add_maintenance_record(frame[c].loaded[1],
                                                               load_data("inventory"),
                                                               frame[c].data, now)]
           /\ pc' = [pc EXCEPT ![c] = "computed"]
           /\ UNCHANGED <<files, unreadable, now, last>>
        \* update_inventory: inventory = self.load_data('inventory') and the update
        \/ /\ pc[c] = "idle"
           /\ \E item_type \in {"oil", "tires"}, quantity \in {0, 1}, operation \in Operations :
                frame' = [frame EXCEPT ![c] =
                            [op |-> "update_inventory",
                             data |-> [item_type |-> item_type, quantity |-> quantity,
                                       operation |-> operation],
                             loaded |-> <<load_data("inventory")>>,
                             result |-> update_inventory(load_data("inventory"), item_type,
                                                         quantity, operation)]]
           /\ pc' = [pc EXCEPT ![c] = "computed"]
           /\ UNCHANGED <<files, unreadable, now, last>>
        \* the next self.save_data of the call
        \/ /\ pc[c] = "computed"
           /\ frame[c].result.writes # <<>>
           /\ files' = Saved(files, <<Head(frame[c].result.writes)>>)
           /\ unreadable' = unreadable \ {Head(frame[c].result.writes).data_type}
           /\ frame' = [frame EXCEPT ![c].result.writes = Tail(@)]
           /\ UNCHANGED <<now, last, pc>>
        \* the return
        \/ /\ pc[c] = "computed"
           /\ frame[c].result.writes = <<>>
           /\ pc' = [pc EXCEPT ![c] = "done"]
           /\ last' = [op |-> frame[c].op, arg |-> c,
                       ok |-> frame[c].result.ok, msg |-> frame[c].result.msg]
           /\ UNCHANGED <<files, unreadable, now, frame>>

SpecSaves == InitSaves /\ [][NextSaves]_vars

(***************************************************************************)
(* Specification of the use of stock: one caller, add_maintenance_record   *)
(* calls only, from an inventory of MaxStock of each item.                 *)
(***************************************************************************)
NextUsage ==
    \E d \in MaintenanceData :
        LET r == add_maintenance_record(load_data("maintenance"), load_data("inventory"),
                                        d, now)
        IN  /\ r.ok => Len(load_data("maintenance")) < MaxSeq
            /\ Call("add_maintenance_record", d, r)

SpecUsage == InitStocked /\ [][NextUsage]_vars

(***************************************************************************)
(* Specification of the mutating methods together: every add and update of *)
(* the data layer, succeeding and failing, on documents that are readable. *)
(***************************************************************************)
NextMutations ==
    \/ \E d \in VehicleData : d.plate_number = <<"A", "1">> /\ CallAddVehicle(d)
    \/ \E plate \in Plates, u \in [status : {"Maintenance"}] : CallUpdateVehicle(plate, u)
    \/ \E d \in PermitData : CallAddPermit(d)
    \/ \E d \in TaxData : CallAddTokenTax(d)
    \/ \E d \in LoadData : d.plate_number = <<"A", "1">> /\ CallAddLoad(d)
    \/ \E load_number \in LoadNumbers : CallUpdateLoadStatus(load_number, "Delivered")
    \/ \E operation \in {"add", "subtract"} : CallUpdateInventory("oil", 1, operation)
    \/ \E d \in MaintenanceData :
          ~d.air_filter_changed /\ d.tires_changed = 0 /\ CallAddMaintenance(d)

SpecMutations == Init /\ [][NextMutations]_vars

(***************************************************************************)
(* Properties of the vehicle operations (specification Spec).              *)
(***************************************************************************)
Vehicles == files["vehicles"]
Inventory == files["inventory"]
Maintenance == files["maintenance"]

NothingSaved == files' = files /\ unreadable' = unreadable

(***************************************************************************)
(* Properties of the add operations (specification SpecAdd).               *)
(***************************************************************************)
\* the list read after the call is the list read before it with one record
\* more: the data given, with id = previous length + 1 and a created_at
AppendedTo(before, after, d) ==
    /\ Len(after) = Len(before) + 1
    /\ \A k \in DOMAIN before : after[k] = before[k]
    /\ after[Len(after)]["id"] = Len(before) + 1
    /\ after[Len(after)]["created_at"] # <<>>
    /\ \A f \in (DOMAIN d) \ {"id", "created_at"} : after[Len(after)][f] = d[f]

\* C1: for each of vehicles, maintenance, permits, token_tax and loads, a
\* successful add followed by the matching get returns a collection of length
\* n+1 whose first n records are the previous ones, unchanged, and whose last
\* record is the new one, with id = n+1 and a non-empty created_at.
C1_AddThenList ==
    [][last'.ok =>
         /\ last'.op = "add_vehicle"
               => AppendedTo(get_vehicles, get_vehicles', last'.arg)
         /\ last'.op = "add_maintenance_record"
               => AppendedTo(get_maintenance_records, get_maintenance_records', last'.arg)
         /\ last'.op = "add_permit"
               => AppendedTo(get_permits, get_permits', last'.arg)
         /\ last'.op = "add_token_tax"
               => AppendedTo(get_token_tax, get_token_tax', last'.arg)
         /\ last'.op = "add_load"
               => AppendedTo(get_loads, get_loads', last'.arg)]_vars

\* every collection has taken an add, and vehicles has taken a second one
C1_Witness ==
    /\ last.ok
    /\ last.op \in {"add_vehicle", "add_maintenance_record", "add_permit",
                    "add_token_tax", "add_load"}
    /\ Len(get_vehicles) = 2
    /\ get_vehicles[2]["id"] = 2
    /\ get_maintenance_records # <<>>
    /\ get_permits # <<>>
    /\ get_token_tax # <<>>
    /\ get_loads # <<>>
    /\ get_loads[1]["id"] = 1

(***************************************************************************)
(* Properties of the vehicle page (specification SpecForms).               *)
(***************************************************************************)
\* some vehicle record has that plate number, letter case set aside
PlateExistsIgnoringCase(vehicles, plate_number) ==
    \E i \in DOMAIN vehicles : Upper(vehicles[i]["plate_number"]) = Upper(plate_number)

\* C2: adding a vehicle whose plate_number is already in the collection,
\* compared without regard to letter case (the form uppercases what is typed),
\* returns (False, message) and leaves the vehicles collection unchanged.
C2_DuplicatePlateRejected ==
    [][\A dn \in DriverNames \ { <<>> }, st \in Statuses :
          (/\ last'.op = "show_add_vehicle_form"
           /\ last'.arg # <<>>
           /\ SubmitAddVehicle(last'.arg, dn, st)
           /\ PlateExistsIgnoringCase(get_vehicles, last'.arg))
          => /\ last'.ok = FALSE
             /\ last'.msg = "Vehicle with this plate number already exists"
             /\ NothingSaved]_vars

\* the plate was typed in lower case and refused against the stored upper case
C2_Witness ==
    /\ last.op = "show_add_vehicle_form"
    /\ ~last.ok
    /\ last.msg = "Vehicle with this plate number already exists"
    /\ last.arg # Upper(last.arg)
    /\ PlateExists(get_vehicles, Upper(last.arg))
    /\ ~PlateExists(get_vehicles, last.arg)


\* C3: in every state reached by add_vehicle and update_vehicle calls from the
\* empty collection, no two vehicle records have the same plate_number, also
\* when update_vehicle is given a partial update that holds a plate_number.
C3_UniquePlates ==
    \A i, j \in DOMAIN Vehicles :
        i # j => Vehicles[i]["plate_number"] # Vehicles[j]["plate_number"]

\* C8: update_vehicle with a plate_number that matches no record returns
\* (False, "Vehicle not found") and saves nothing: the vehicles document is
\* unchanged and no record gets an updated_at.
C8_UpdateUnknownPlate ==
    [][(last'.op = "update_vehicle" /\ ~PlateExists(Vehicles, last'.arg["plate_number"]))
          => /\ last'.ok = FALSE
             /\ last'.msg = "Vehicle not found"
             /\ NothingSaved]_vars

C8_Witness ==
    /\ last.op = "update_vehicle"
    /\ ~last.ok
    /\ Vehicles # <<>>
    /\ ~PlateExists(Vehicles, last.arg["plate_number"])
    /\ \A i \in DOMAIN Vehicles : "updated_at" \notin DOMAIN Vehicles[i]

\* C9: update_vehicle with an existing plate_number changes, in the matched
\* record, only the fields of the partial update and updated_at; every other
\* field of it (id, created_at, plate_number when not supplied) keeps its
\* value, every other record is unchanged, and so are the length and order.
C9_UpdateMergesOnlySupplied ==
    [][(last'.op = "update_vehicle" /\ PlateExists(Vehicles, last'.arg["plate_number"]))
          => LET old == Vehicles
                 new == files'["vehicles"]
                 u == last'.arg["updated_data"]
                 i == FirstMatch(old, last'.arg["plate_number"])
             IN /\ last'.ok
                /\ Len(new) = Len(old)
                /\ \A j \in DOMAIN old : j # i => new[j] = old[j]
                /\ DOMAIN new[i] = (DOMAIN old[i]) \cup (DOMAIN u) \cup {"updated_at"}
                /\ \A f \in DOMAIN u : new[i][f] = u[f]
                /\ \A f \in (DOMAIN old[i]) \ ((DOMAIN u) \cup {"updated_at"}) :
                      new[i][f] = old[i][f]
                /\ new[i]["updated_at"] = IsoFormat(now)]_vars

\* a record keeps its id, created_at and plate_number through an update of
\* its status made at a later time, next to a record that was never updated
C9_Witness ==
    /\ last.op = "update_vehicle"
    /\ last.ok
    /\ DOMAIN last.arg["updated_data"] = {"status"}
    /\ Len(Vehicles) = 2
    /\ \E i, j \in DOMAIN Vehicles :
          /\ "updated_at" \in DOMAIN Vehicles[i]
          /\ Vehicles[i]["updated_at"] # Vehicles[i]["created_at"]
          /\ Vehicles[i]["id"] = i
          /\ Vehicles[i]["plate_number"] = last.arg["plate_number"]
          /\ "updated_at" \notin DOMAIN Vehicles[j]

(***************************************************************************)
(* Properties of the stock operations (specification SpecStock).           *)
(***************************************************************************)
\* some item the record asks for (a flag set, a positive number of tires) is
\* short of stock
ShortOfStock(inventory, d) ==
    \/ d["oil_changed"] /\ inventory["oil"] = 0
    \/ d["air_filter_changed"] /\ inventory["air_filter"] = 0
    \/ d["tires_changed"] > 0 /\ d["tires_changed"] > inventory["tires"]

InsufficientMessages ==
    {"Insufficient oil in inventory", "Insufficient air filters in inventory",
     "Insufficient tires in inventory"}

\* C4: add_maintenance_record fails with (False, message) and leaves the
\* inventory and the maintenance documents unchanged whenever one requested
\* item is short of stock, also when an item checked earlier was sufficient:
\* no partial deduction is saved.
C4_InsufficientStockIsAtomic ==
    [][(last'.op = "add_maintenance_record" /\ ShortOfStock(Inventory, last'.arg))
          => /\ last'.ok = FALSE
             /\ last'.msg \in InsufficientMessages
             /\ NothingSaved]_vars

\* oil was asked for and in stock, tires were not: the call failed on the tires
C4_Witness ==
    /\ last.op = "add_maintenance_record"
    /\ ~last.ok
    /\ last.msg = "Insufficient tires in inventory"
    /\ last.arg["oil_changed"]
    /\ Inventory["oil"] > 0
    /\ Inventory["tires"] > 0

Used(flag) == IF flag THEN 1 ELSE 0

\* C5: when add_maintenance_record succeeds, the saved inventory is the one
\* before with oil less 1 if oil_changed, air_filter less 1 if
\* air_filter_changed and tires less tires_changed, every other key unchanged,
\* and the saved maintenance collection is the previous one with the new record
\* appended; both are saved when the call returns.
C5_SuccessDeductsAndAppends ==
    [][(last'.op = "add_maintenance_record" /\ last'.ok)
          => LET d == last'.arg
                 inv == Inventory
                 inv2 == files'["inventory"]
                 recs == Maintenance
                 recs2 == files'["maintenance"]
             IN /\ DOMAIN inv2 = DOMAIN inv
                /\ inv2["oil"] = inv["oil"] - Used(d["oil_changed"])
                /\ inv2["air_filter"] = inv["air_filter"] - Used(d["air_filter_changed"])
                /\ inv2["tires"] = inv["tires"] - d["tires_changed"]
                /\ \A k \in (DOMAIN inv) \ Items : inv2[k] = inv[k]
                /\ Len(recs2) = Len(recs) + 1
                /\ SubSeq(recs2, 1, Len(recs)) = recs
                /\ \A f \in DOMAIN d : recs2[Len(recs2)][f] = d[f]
                /\ \A t \in data_files \ {"inventory", "maintenance"} :
                      files'[t] = files[t]
                /\ unreadable' = {}]_vars

C5_Witness ==
    /\ last.op = "add_maintenance_record"
    /\ last.ok
    /\ last.arg["oil_changed"]
    /\ last.arg["tires_changed"] = 2
    /\ Inventory["oil"] > 0
    /\ Maintenance # <<>>
    /\ Maintenance[Len(Maintenance)]["tires_changed"] = 2

\* C6: every update_inventory(item, qty, 'subtract') call returns success and
\* leaves the item at max(0, current - qty), which is never negative, however
\* large qty is.
C6_SubtractClampsAtZero ==
    [][(last'.op = "update_inventory" /\ last'.arg["operation"] = "subtract")
          => LET i == last'.arg["item_type"]
                 q == last'.arg["quantity"]
             IN /\ last'.ok
                /\ files'["inventory"][i] >= 0
                /\ files'["inventory"][i] =
                      (IF Inventory[i] - q > 0 THEN Inventory[i] - q ELSE 0)]_vars

\* more was subtracted than any stock holds, and the item is at zero
C6_Witness ==
    /\ last.op = "update_inventory"
    /\ last.ok
    /\ last.arg["operation"] = "subtract"
    /\ last.arg["quantity"] > MaxStock
    /\ Inventory[last.arg["item_type"]] = 0
    /\ \E k \in Items : Inventory[k] > 0

\* C7: in every state reached by update_inventory calls (add, subtract, set,
\* with any integer quantity) and add_maintenance_record calls from the default
\* inventory, every inventory quantity is >= 0.
C7_NonNegativeInventory ==
    \A k \in DOMAIN Inventory : Inventory[k] >= 0

(***************************************************************************)
(* Properties of concurrent add calls (specification SpecRace).            *)
(***************************************************************************)
\* the record a caller's call appended to the list it loaded
NewRecord(c) ==
    LET doc == frame[c].result.writes[1].data IN doc[Len(doc)]

\* both callers ran the same add method to its return with success, both loaded
\* the same collection, and second saved last
Raced(first, second) ==
    /\ first # second
    /\ pc[first] = "done"
    /\ pc[second] = "done"
    /\ frame[first].op = frame[second].op
    /\ frame[first].loaded = frame[second].loaded
    /\ frame[first].result.ok
    /\ frame[second].result.ok
    /\ last.arg = second

\* C10: when two callers run an add on the same entity type with their steps
\* interleaved so that both read the same collection, both return success,
\* both computed the same id (and, for loads, the same load_number), and the
\* saved collection holds only the second writer's record: the first writer's
\* append is lost.
C10_ConcurrentAddsLoseAnAppend ==
    \A first, second \in Callers :
        Raced(first, second)
        => /\ NewRecord(first)["id"] = NewRecord(second)["id"]
           /\ frame[first].op = "add_load"
                 => NewRecord(first)["load_number"] = NewRecord(second)["load_number"]
           /\ files[DataTypeOf(frame[second].op)]
                 = Append(frame[second].loaded, NewRecord(second))

\* two loads were added at once to a collection of one load, with different
\* data: one of them is not in the saved collection
C10_Witness ==
    \E first, second \in Callers :
        /\ Raced(first, second)
        /\ frame[first].op = "add_load"
        /\ Len(frame[first].loaded) = 1
        /\ NewRecord(first) # NewRecord(second)
        /\ \A i \in DOMAIN files["loads"] : files["loads"][i] # NewRecord(first)
        /\ Len(files["loads"]) = 2

(***************************************************************************)
(* Properties of one caller that only adds (specification SpecIds).        *)
(***************************************************************************)
ListTypes == data_files \ {"inventory"}

\* C11: when one caller adds to collections that start empty, the ids of every
\* list are 1..n in list order, the k-th load's load_number is "LD" followed by
\* k written in six zero-padded digits, and no two loads share a load_number.
C11_SequentialIds ==
    /\ \A t \in ListTypes : \A i \in DOMAIN files[t] : files[t][i]["id"] = i
    /\ \A k \in DOMAIN files["loads"] :
          LET number == files["loads"][k]["load_number"] IN
          /\ Len(number) = 8
          /\ number[1] = "L" /\ number[2] = "D"
          /\ \A i \in 3..8 : number[i] \in 0..9
          /\ DecimalValue(SubSeq(number, 3, 8)) = k
    /\ \A j, k \in DOMAIN files["loads"] :
          j # k => files["loads"][j]["load_number"] # files["loads"][k]["load_number"]

C11_Witness ==
    /\ Len(files["loads"]) = MaxLoads
    /\ \A t \in ListTypes \ {"loads"} : Len(files[t]) >= 2
    /\ last.op = "add_load"

OnlyRecordOf(list, d) ==
    /\ Len(list) = 1
    /\ list[1]["id"] = 1
    /\ \A f \in DOMAIN d : list[1][f] = d[f]

\* C13: when the file of an entity type is not valid JSON, the next mutating
\* call on that type that succeeds replaces it and reports no error: afterwards
\* the file is readable and holds what the call built on the default value, for
\* an add one record with id 1, for update_inventory the default inventory with
\* the one item changed.
C13_DamagedFileReplaced ==
    [][/\ (last'.op \in {"add_vehicle", "add_permit"} /\ last'.ok
              /\ DataTypeOf(last'.op) \in unreadable)
          => /\ DataTypeOf(last'.op) \notin unreadable'
             /\ OnlyRecordOf(files'[DataTypeOf(last'.op)], last'.arg)
       /\ (last'.op = "add_maintenance_record" /\ last'.ok /\ "maintenance" \in unreadable)
          => /\ "maintenance" \notin unreadable'
             /\ OnlyRecordOf(files'["maintenance"], last'.arg)
       /\ (last'.op = "update_inventory" /\ "inventory" \in unreadable)
          => /\ last'.ok
             /\ "inventory" \notin unreadable'
             /\ files'["inventory"] =
                   [k \in {"oil", "air_filter", "tires"} |->
                       IF k = last'.arg["item_type"] THEN last'.arg["quantity"] ELSE 0]]_vars

C13_Witness ==
    /\ last.op = "add_permit"
    /\ last.ok
    /\ last.repaired = {"permits"}
    /\ files["permits"][1]["id"] = 1
    /\ unreadable = {}

(***************************************************************************)
(* Properties of update_inventory (specification SpecInventory).           *)
(***************************************************************************)
\* the quantity of key k in inventory, an absent key counting as 0
Stocked(inventory, k) == IF k \in DOMAIN inventory THEN inventory[k] ELSE 0

\* C14: update_inventory(item_key, quantity, operation) always succeeds and
\* changes only the entry of item_key: add gives old + quantity, subtract gives
\* max(0, old - quantity), set gives quantity, where old is 0 for a key the
\* inventory does not hold; every other key keeps its value.
C14_UpdateInventoryOneEntry ==
    [][last'.op = "update_inventory"
          => LET item_key == last'.arg["item_type"]
                 quantity == last'.arg["quantity"]
                 old == Stocked(Inventory, item_key)
             IN
             /\ last'.ok
             /\ DOMAIN Inventory' = DOMAIN Inventory \cup {item_key}
             /\ last'.arg["operation"] = "add" => Inventory'[item_key] = old + quantity
             /\ last'.arg["operation"] = "subtract" =>
                   Inventory'[item_key] = (IF old - quantity > 0 THEN old - quantity ELSE 0)
             /\ last'.arg["operation"] = "set" => Inventory'[item_key] = quantity
             /\ \A k \in DOMAIN Inventory \ {item_key} : Inventory'[k] = Inventory[k]]_vars

C14_Witness ==
    /\ last.op = "update_inventory"
    /\ last.arg["item_type"] = "coolant"
    /\ last.arg["operation"] = "subtract"
    /\ last.ok
    /\ Inventory["coolant"] = 0
    /\ Inventory["oil"] > 0

(***************************************************************************)
(* Properties of the load operations (specification SpecLoads).            *)
(***************************************************************************)
Loads == files["loads"]

\* C15: update_load_status finds a load by its load_number.  When no load has
\* it, the call returns (False, "Load not found") and the loads file keeps its
\* content; when a load has it, the call returns success, that record gets the
\* new status and an updated_at, all its other fields and all other records
\* stay as they were.
C15_UpdateLoadStatus ==
    [][last'.op = "update_load_status"
          => LET load_number == last'.arg["load_number"]
                 matches == { i \in DOMAIN Loads : Loads[i]["load_number"] = load_number }
             IN
             IF matches = {}
             THEN /\ last'.ok = FALSE
                  /\ last'.msg = "Load not found"
                  /\ NothingSaved
             ELSE /\ last'.ok = TRUE
                  /\ DOMAIN Loads' = DOMAIN Loads
                  /\ \E i \in matches :
                        /\ Loads'[i]["status"] = last'.arg["new_status"]
                        /\ Loads'[i]["updated_at"] = IsoFormat(now)
                        /\ DOMAIN Loads'[i] = DOMAIN Loads[i] \cup {"updated_at"}
                        /\ \A f \in DOMAIN Loads[i] \ {"status", "updated_at"} :
                              Loads'[i][f] = Loads[i][f]
                        /\ \A j \in DOMAIN Loads \ {i} : Loads'[j] = Loads[j]]_vars

C15_Witness ==
    /\ last.op = "update_load_status"
    /\ last.ok
    /\ Len(Loads) = 2
    /\ Loads[2]["load_number"] = last.arg["load_number"]
    /\ Loads[2]["status"] = "Delivered"
    /\ Loads[1]["status"] = "Loading"

(***************************************************************************)
(* Properties of the expiring-document views and of document compliance    *)
(* (specification SpecDocs).                                               *)
(***************************************************************************)
Permits == files["permits"]
TokenTax == files["token_tax"]

\* the calendar day an expire_date writes, and today's
ExpireDay(record) == DecimalValue(record["expire_date"])
Today == now \div TicksPerDay

\* C16: get_expiring_permits(days_ahead) and get_expiring_taxes(days_ahead)
\* return, in collection order, exactly the records whose expire_date is on or
\* before today + days_ahead: expired records are in, later ones are out.
C16_ExpiringViews ==
    /\ last.op = "get_expiring_permits" =>
          last.value = SelectSeq(Permits, LAMBDA r : ExpireDay(r) <= Today + last.arg)
    /\ last.op = "get_expiring_taxes" =>
          last.value = SelectSeq(TokenTax, LAMBDA r : ExpireDay(r) <= Today + last.arg)

C16_Witness ==
    /\ last.op = "get_expiring_permits"
    /\ last.arg = 30
    /\ Len(Permits) = 2
    /\ ExpireDay(Permits[1]) > Today + 30
    /\ ExpireDay(Permits[2]) < Today
    /\ last.value = << Permits[2] >>
\* the compliance status the dashboard shows for the vehicle with that plate
StatusOf(plate) ==
    LET compliance_data ==
            show_document_compliance(get_vehicles, get_permits, get_token_tax, now)
        i == CHOOSE i \in DOMAIN compliance_data : compliance_data[i]["vehicle"] = plate
    IN compliance_data[i]["status"]

\* the records of the list with that plate number
OfPlate(list, plate) == SelectSeq(list, LAMBDA r : r["plate_number"] = plate)

\* vehicle "ABC-123" has one permit, expiring in 5 days, and one tax record,
\* expiring in 40 days
AbcScenario ==
    /\ PlateExists(Vehicles, AbcPlate)
    /\ Len(OfPlate(Permits, AbcPlate)) = 1
    /\ ExpireDay(OfPlate(Permits, AbcPlate)[1]) = Today + 5
    /\ Len(OfPlate(TokenTax, AbcPlate)) = 1
    /\ ExpireDay(OfPlate(TokenTax, AbcPlate)[1]) = Today + 40

\* the two 30-day views in the scenario: the permit is in, the tax record is out
AbcViews ==
    /\ \E i \in DOMAIN get_expiring_permits(30) :
          get_expiring_permits(30)[i] = OfPlate(Permits, AbcPlate)[1]
    /\ \A i \in DOMAIN get_expiring_taxes(30) :
          get_expiring_taxes(30)[i] # OfPlate(TokenTax, AbcPlate)[1]

\* C17 as stated: in the scenario the 30-day permits view includes the permit,
\* the 30-day taxes view excludes the tax record, and the vehicle's compliance
\* status is "Partial".
C17_ScenarioIsPartial == AbcScenario => (AbcViews /\ StatusOf(AbcPlate) = "Partial")

\* C17, amended: in the scenario the 30-day permits view includes the permit,
\* the 30-day taxes view excludes the tax record, and the vehicle's compliance
\* status is "Compliant", both documents expiring after today.
C17_ScenarioIsCompliant == AbcScenario => (AbcViews /\ StatusOf(AbcPlate) = "Compliant")

C17_Witness ==
    /\ AbcScenario
    /\ last.op = "show_document_compliance"
    /\ \E i \in DOMAIN last.value :
          /\ last.value[i]["vehicle"] = AbcPlate
          /\ last.value[i]["status"] = "Compliant"
          /\ last.value[i]["permits"] = 1
          /\ last.value[i]["taxes"] = 1

\* the vehicle with that plate has a permit, or a tax record, that expires
\* after today
HasCurrent(list, plate) ==
    \E i \in DOMAIN list : list[i]["plate_number"] = plate /\ ExpireDay(list[i]) > Today

\* C18: a vehicle's compliance status is Compliant exactly when it has a permit
\* and a tax record for its plate_number that expire after today, Partial
\* exactly when it has one of the two kinds and not the other, Non-Compliant
\* exactly when it has neither; a document that expires today is expired.
C18_ComplianceStatus ==
    last.op = "show_document_compliance" =>
        /\ Len(last.value) = Len(Vehicles)
        /\ \A i \in DOMAIN Vehicles :
              LET plate == Vehicles[i]["plate_number"]
                  permit == HasCurrent(Permits, plate)
                  tax == HasCurrent(TokenTax, plate)
                  status == last.value[i]["status"]
              IN /\ last.value[i]["vehicle"] = plate
                 /\ status = "Compliant" <=> (permit /\ tax)
                 /\ status = "Partial" <=> (permit # tax)
                 /\ status = "Non-Compliant" <=> (~permit /\ ~tax)

C18_Witness ==
    /\ last.op = "show_document_compliance"
    /\ last.value[1]["status"] = "Partial"
    /\ last.value[2]["status"] = "Non-Compliant"
    /\ \E i \in DOMAIN Permits :
          Permits[i]["plate_number"] = AbcPlate /\ ExpireDay(Permits[i]) = Today
    /\ \A i \in DOMAIN Permits : ExpireDay(Permits[i]) <= Today
    /\ HasCurrent(TokenTax, AbcPlate)

(***************************************************************************)
(* Properties of the maintenance alerts (specification SpecAlerts).        *)
(***************************************************************************)
\* the instant a created_at writes, read off its digits
CreatedInstant(record) ==
    DecimalValue(SubSeq(record["created_at"], 1, 4)) * TicksPerDay + record["created_at"][6]

\* the whole days from the record's creation to now
DaysSince(record) == (now - CreatedInstant(record)) \div TicksPerDay

RecordsOf(plate) == { i \in DOMAIN Maintenance : Maintenance[i]["plate_number"] = plate }

\* the whole days since the most recently created record of the plate
DaysSinceLatest(plate) ==
    LET i == CHOOSE i \in RecordsOf(plate) :
                 \A j \in RecordsOf(plate) :
                     CreatedInstant(Maintenance[j]) <= CreatedInstant(Maintenance[i])
    IN DaysSince(Maintenance[i])

\* the priority of the alert the vehicle is due, "none" when it is due none
DuePriority(plate) ==
    IF RecordsOf(plate) = {} THEN "high"
    ELSE IF DaysSinceLatest(plate) <= 90 THEN "none"
    ELSE IF DaysSinceLatest(plate) <= 180 THEN "medium"
    ELSE "high"

\* C19: get_maintenance_alerts gives at most one alert per vehicle of the
\* vehicles collection, in its order: a high "no maintenance records" alert for
\* a vehicle without records; otherwise, with d the whole days since its latest
\* record, none if d <= 90, a medium one if 91 <= d <= 180, a high one if
\* d > 180.  Records whose plate is no vehicle's give no alert.
C19_MaintenanceAlerts ==
    last.op = "get_maintenance_alerts" =>
        LET due == SelectSeq(Vehicles, LAMBDA v : DuePriority(v["plate_number"]) # "none") IN
        /\ Len(last.value) = Len(due)
        /\ \A i \in DOMAIN due :
              LET plate == due[i]["plate_number"] IN
              /\ last.value[i]["plate_number"] = plate
              /\ last.value[i]["priority"] = DuePriority(plate)
              /\ last.value[i]["alert"][1] =
                    (IF RecordsOf(plate) = {} THEN "No maintenance records found"
                     ELSE "Last maintenance")
              /\ RecordsOf(plate) # {} => last.value[i]["alert"][2] = DaysSinceLatest(plate)

C19_Witness ==
    /\ last.op = "get_maintenance_alerts"
    /\ Len(Vehicles) = 2
    /\ Len(last.value) = 2
    /\ last.value[1]["plate_number"] = <<"B", "1">>
    /\ last.value[1]["alert"][1] = "No maintenance records found"
    /\ last.value[2]["priority"] = "medium"
    /\ last.value[2]["alert"][2] = 180

\* C20: for a vehicle with several maintenance records the alert rests on the
\* record with the greatest created_at, whatever the order of the records in
\* the collection and whatever their maintenance_date: the days it reports are
\* those since that record, and there is no alert for the vehicle when one of
\* its records was created within the last 90 days.
C20_LatestRecordDecides ==
    last.op = "get_maintenance_alerts" =>
        \A v \in DOMAIN Vehicles :
            LET plate == Vehicles[v]["plate_number"]
                alerts == SelectSeq(last.value, LAMBDA a : a["plate_number"] = plate)
            IN Cardinality(RecordsOf(plate)) > 1 =>
                  /\ \A i \in DOMAIN alerts : alerts[i]["alert"][2] = DaysSinceLatest(plate)
                  /\ (\E i \in RecordsOf(plate) : DaysSince(Maintenance[i]) <= 90)
                        => alerts = <<>>

C20_Witness ==
    /\ last.op = "get_maintenance_alerts"
    /\ PlateExists(Vehicles, <<"A", "1">>)
    /\ Len(Maintenance) = 2
    /\ DaysSince(Maintenance[1]) = 0
    /\ DaysSince(Maintenance[2]) > 180
    /\ Maintenance[1]["maintenance_date"] # Maintenance[2]["maintenance_date"]
    /\ \A i \in DOMAIN last.value : last.value[i]["plate_number"] # <<"A", "1">>

(***************************************************************************)
(* Properties of the low stock alerts (specification SpecLowStock).        *)
(***************************************************************************)
\* the priority the alerts give the item named name, "none" when they do not
\* list it
FlaggedAs(alerts, name) ==
    IF \E i \in DOMAIN alerts : alerts[i]["item"] = name
    THEN alerts[CHOOSE i \in DOMAIN alerts : alerts[i]["item"] = name]["priority"]
    ELSE "none"

\* the item is classified as the claim says, given its reorder level
ClassifiedBy(alerts, name, quantity, level) ==
    /\ quantity = 0 => FlaggedAs(alerts, name) = "Critical"
    /\ (0 < quantity /\ 2 * quantity <= level) => FlaggedAs(alerts, name) = "High"
    /\ (2 * quantity > level /\ quantity <= level) => FlaggedAs(alerts, name) = "Medium"
    /\ quantity > level => FlaggedAs(alerts, name) = "none"

\* C21: with reorder levels oil 5, air_filter 10, tires 8 an item is Critical
\* at quantity 0, High at 0 < quantity with 2 * quantity <= level, Medium at
\* 2 * quantity > level with quantity <= level, and not flagged above the
\* level; inventory {oil 0, air_filter 12, tires 3} gives oil Critical,
\* air_filter not flagged, tires High.
C21_LowStockClasses ==
    last.op = "show_low_stock_alerts" =>
        /\ ClassifiedBy(last.value, "Oil", Inventory["oil"], 5)
        /\ ClassifiedBy(last.value, "Air Filter", Inventory["air_filter"], 10)
        /\ ClassifiedBy(last.value, "Tires", Inventory["tires"], 8)
        /\ Inventory = [oil |-> 0, air_filter |-> 12, tires |-> 3] =>
              /\ FlaggedAs(last.value, "Oil") = "Critical"
              /\ FlaggedAs(last.value, "Air Filter") = "none"
              /\ FlaggedAs(last.value, "Tires") = "High"
        /\ \A i, j \in DOMAIN last.value :
              last.value[i]["item"] = last.value[j]["item"] => i = j

C21_Witness ==
    /\ last.op = "show_low_stock_alerts"
    /\ Inventory = [oil |-> 0, air_filter |-> 12, tires |-> 3]
    /\ Len(last.value) = 2
    /\ last.value[1]["priority"] = "Critical"
    /\ last.value[2]["priority"] = "High"

(***************************************************************************)
(* Properties of the add-load form (specification SpecLoadForm).           *)
(***************************************************************************)
\* C22: a load recorded by the form has net_weight = gross_weight -
\* tare_weight, amount = net_weight * rate_per_unit and pending_amount =
\* amount - advance_payment; gross 10000, tare 4000, rate 2.5 and advance 5000
\* give net 6000, amount 15000 and pending 10000 (money in hundredths).
C22_LoadAmounts ==
    [][last'.op = "show_add_load_form"
          => LET f == last'.arg
                 load == Loads'[Len(Loads')]
             IN
             /\ last'.ok =>
                   /\ Len(Loads') = Len(Loads) + 1
                   /\ load["gross_weight"] = f["gross_weight"]
                   /\ load["tare_weight"] = f["tare_weight"]
                   /\ load["net_weight"] = f["gross_weight"] - f["tare_weight"]
                   /\ load["amount"] = load["net_weight"] * f["rate_per_unit"]
                   /\ load["pending_amount"] = load["amount"] - f["advance_payment"]
             /\ (Vehicles # <<>>
                   /\ f = [gross_weight |-> 10000, tare_weight |-> 4000,
                           rate_per_unit |-> 250, advance_payment |-> 500000])
                => /\ last'.ok
                   /\ load["net_weight"] = 6000
                   /\ load["amount"] = 1500000
                   /\ load["pending_amount"] = 1000000]_vars

C22_Witness ==
    /\ last.op = "show_add_load_form"
    /\ last.ok
    /\ last.arg["gross_weight"] = 10000 /\ last.arg["tare_weight"] = 4000
    /\ last.arg["rate_per_unit"] = 250 /\ last.arg["advance_payment"] = 500000
    /\ Loads[Len(Loads)]["net_weight"] = 6000
    /\ Loads[Len(Loads)]["amount"] = 1500000
    /\ Loads[Len(Loads)]["pending_amount"] = 1000000

(***************************************************************************)
(* Properties of the read methods (specification SpecReads).               *)
(***************************************************************************)
\* the reads that never look at the clock, and the views that compare dates
StoredReads == { "get_vehicles", "get_vehicle_by_plate", "get_maintenance_records",
                 "get_inventory", "get_permits", "get_token_tax", "get_loads" }
ExpiringViews == { "get_expiring_permits", "get_expiring_taxes" }
Reads == StoredReads \cup ExpiringViews \cup { "get_maintenance_alerts" }

\* the step is a read that follows a call of the same read with the same
\* argument, no other call in between
RepeatedRead == last.op \in Reads /\ last'.op = last.op /\ last'.arg = last.arg

\* C23 as stated: a read leaves every persisted document unchanged, and a read
\* repeated with no mutation in between returns a result equal to the first.
C23_RepeatedReadsEqual ==
    [][last'.op \in Reads =>
         /\ NothingSaved
         /\ RepeatedRead => last'.value = last.value]_vars

\* C23, amended: a read leaves every persisted document unchanged; repeated with
\* no mutation in between, a stored-document read returns an equal result
\* whatever time has passed, and an expiring view returns an equal result when
\* both calls fall on the same calendar day.
C23_RepeatedReadsOfOneDay ==
    [][last'.op \in Reads =>
         /\ NothingSaved
         /\ ( /\ RepeatedRead
              /\ \/ last.op \in StoredReads
                 \/ last.op \in ExpiringViews /\ DateOf(last.at) = DateOf(last'.at) )
            => last'.value = last.value]_vars

\* an expiring view called with the clock on the later instant of day 291 has
\* listed the permit that expires the day after
C23_Witness ==
    /\ last.op = "get_expiring_permits" /\ last.arg = <<30>>
    /\ last.at = 291 * TicksPerDay + (TicksPerDay - 1)
    /\ now = last.at
    /\ Len(last.value) = 1

(***************************************************************************)
(* Properties of the round trip through a file (specification SpecJson).   *)
(***************************************************************************)
\* C24: for every entity type and every value v of the field types in use,
\* load_data after save_data(type, v) returns a value equal to v, and saving the
\* loaded value again leaves the document as it was.
C24_RoundTrip ==
    [][/\ pc'["c1"] = "loaded" => frame'["c1"].loaded = frame["c1"].data[2]
       /\ pc'["c1"] = "resaved" => files' = files]_vars

\* a list of two items, one of them a string with an escaped character, has
\* been saved, loaded and saved again
C24_Witness ==
    /\ pc["c1"] = "resaved"
    /\ frame["c1"].data[2][1] = "list"
    /\ Len(frame["c1"].data[2][2]) = 2
    /\ Py("str", <<"a", "\"">>) = frame["c1"].data[2][2][2]
    /\ files[frame["c1"].data[1]] # JsonDump(DefaultValue(frame["c1"].data[1]))

(***************************************************************************)
(* Properties of the loads and saves of the stock methods (specification   *)
(* SpecSaves).                                                             *)
(***************************************************************************)
\* the inventory after the deductions of a maintenance record
Deducted(inventory, maintenance_data) ==
    [inventory EXCEPT
       !["oil"] = @ - (IF maintenance_data.oil_changed THEN 1 ELSE 0),
       !["air_filter"] = @ - (IF maintenance_data.air_filter_changed THEN 1 ELSE 0),
       !["tires"] = @ - maintenance_data.tires_changed]

\* caller c is the only one to have called, and the call is add_maintenance_record
AloneInMaintenance(c) ==
    /\ \A other \in Callers \ {c} : pc[other] = "idle"
    /\ frame[c].op = "add_maintenance_record"
    /\ pc[c] \in {"computed", "done"}

\* C25: in a single-actor execution, whenever the new maintenance record is
\* persisted its deduction is persisted too: add_maintenance_record saves the
\* inventory before it saves the record.
C25_DeductionSavedFirst ==
    \A c \in Callers :
        AloneInMaintenance(c) /\ Maintenance # frame[c].loaded[1]
        => Inventory = Deducted(frame[c].loaded[2], frame[c].data)

\* between the two saves: the stock is deducted and the record not yet persisted
C25_Witness ==
    /\ AloneInMaintenance("c1")
    /\ pc["c1"] = "computed" /\ Len(frame["c1"].result.writes) = 1
    /\ Inventory["oil"] = frame["c1"].loaded[2]["oil"] - 1
    /\ Inventory["tires"] = frame["c1"].loaded[2]["tires"] - 2
    /\ Maintenance = <<>>

\* C27: with non-negative quantities, under every interleaving of the loads and
\* saves of concurrent add_maintenance_record and update_inventory calls, every
\* persisted inventory quantity is >= 0.
C27_StockNeverNegative == \A i \in DOMAIN Inventory : Inventory[i] >= 0

\* two concurrent maintenance calls have both succeeded in taking the single
\* unit of oil
C27_Witness ==
    /\ \A c \in Callers :
         /\ pc[c] = "done"
         /\ frame[c].op = "add_maintenance_record"
         /\ frame[c].result.ok /\ frame[c].data.oil_changed
         /\ frame[c].loaded[2]["oil"] = 1
    /\ Inventory["oil"] = 0

(***************************************************************************)
(* Properties of the use of stock (specification SpecUsage).               *)
(***************************************************************************)
\* the tires the persisted records say were changed
RECURSIVE TiresRecorded(_)
TiresRecorded(records) ==
    IF records = <<>> THEN 0
    ELSE records[1].tires_changed + TiresRecorded(Tail(records))

OwnTypes(op) ==
    CASE op \in {"add_vehicle", "update_vehicle"} -> {"vehicles"}
      [] op = "add_permit" -> {"permits"}
      [] op = "add_token_tax" -> {"token_tax"}
      [] op \in {"add_load", "update_load_status"} -> {"loads"}
      [] op = "update_inventory" -> {"inventory"}
      [] op = "add_maintenance_record" -> {"inventory", "maintenance"}
      [] OTHER -> {}

\* C28: a mutating method writes only the documents of its own entity type
\* (add_maintenance_record: inventory and maintenance); every other document is
\* unchanged, and a failed call changes none.
C28_WritesOwnDocuments ==
    [][/\ \A data_type \in data_files \ OwnTypes(last'.op) :
             files'[data_type] = files[data_type]
       /\ ~last'.ok => files' = files]_vars

\* a maintenance record has been added with a record of every other kind on file
C28_Witness ==
    /\ last.op = "add_maintenance_record" /\ last.ok
    /\ Maintenance # <<>>
    /\ Vehicles # <<>> /\ Permits # <<>> /\ TokenTax # <<>> /\ Loads # <<>>

\* the list a successful add appends to
AddedTo(op) ==
    CASE op = "add_vehicle" -> {"vehicles"}
      [] op = "add_permit" -> {"permits"}
      [] op = "add_token_tax" -> {"token_tax"}
      [] op = "add_load" -> {"loads"}
      [] op = "add_maintenance_record" -> {"maintenance"}
      [] OTHER -> {}

\* C29: no method removes a record: over adds and updates on readable
\* documents the length of a list-typed collection never decreases, grows by
\* exactly 1 on a successful add, and stays equal on an update and on a failed
\* call.
C29_NoRecordRemoved ==
    [][\A data_type \in ListTypes :
          Len(files'[data_type]) =
              Len(files[data_type])
              + (IF last'.ok /\ data_type \in AddedTo(last'.op) THEN 1 ELSE 0)]_vars

\* an update has failed, and another has succeeded, on lists that hold a record
C29_Witness ==
    /\ last.op = "update_load_status" /\ ~last.ok
    /\ Len(Loads) = 1
    /\ Len(Vehicles) = 1 /\ "updated_at" \in DOMAIN Vehicles[1]

(***************************************************************************)
(* Properties of the alert section of the dashboard (specification         *)
(* SpecAlerts).                                                            *)
(***************************************************************************)
\* the lines of the alerts of a list, in its order
AlertLines(alerts) ==
    [i \in DOMAIN alerts |->
        [plate_number |-> alerts[i]["plate_number"], alert_type |-> alerts[i]["alert"]]]

\* C30: the alert section classifies every alert of get_maintenance_alerts
\* exactly once, the high ones as critical and the others as warnings, for any
\* number of alerts; with no alerts nothing is added and no error occurs.
C30_EveryAlertClassifiedOnce ==
    last.op = "show_alerts_section" =>
        /\ last.value.error = ""
        /\ last.value.critical_alerts =
              AlertLines(SelectSeq(get_maintenance_alerts, LAMBDA a : a["priority"] = "high"))
        /\ last.value.warning_alerts =
              AlertLines(SelectSeq(get_maintenance_alerts, LAMBDA a : a["priority"] # "high"))

====
